---- MODULE Spec2Model ----
(***************************************************************************)
(* Model of the Feetech serial-servo protocol layer (SCS.cpp) on top of    *)
(* the staged serial transport (SCSerial.cpp).                             *)
(*                                                                         *)
(* Every public operation of class SCS is one action; the helper methods   *)
(* (writeBuf, Ack, writeSCS, wFlushSCS, readSCS) are operators the actions *)
(* compose exactly as the C++ code calls them.  Bytes are integers in      *)
(* 0..255 and all u8 / u16 arithmetic is reduced modulo its width.         *)
(***************************************************************************)
EXTENDS Integers, Sequences, FiniteSets, TLC

VARIABLES
    Level,                  \* SCS::Level  (response level)
    End,                    \* SCS::End    (endianness flag)
    Error,                  \* SCS::Error  (cached servo status)
    txBuf,                  \* SCSerial::txBuf[0 .. txBufLen-1]
    wire,                   \* transport calls made by the current operation
    op,                     \* the operation that ran last, with its arguments
    ret,                    \* its return value
    nData,                  \* caller's buffer after the last Read (<<>> after any other call)
    syncReadRxPacketIndex,  \* SCS::syncReadRxPacketIndex
    syncReadRxPacketLen,    \* SCS::syncReadRxPacketLen
    syncReadRxPacket,       \* caller's buffer behind SCS::syncReadRxPacket
    syncReadRxBuff,         \* contents of SCS::syncReadRxBuff, or NULL
    syncReadRxBuffLen,      \* SCS::syncReadRxBuffLen
    syncReadRxBuffMax,      \* SCS::syncReadRxBuffMax
    scan,                   \* raw-buffer indices from .. to-1 read by the last syncReadPacketRx
    rxLog,                  \* syncReadPacketRx calls since the last syncReadPacketTx
    nTx,                    \* number of syncReadPacketTx calls so far
    Err,                    \* SCSerial::Err (failure flag of the servo-level calls)
    rd,                     \* the SCSerial::readSCS call in progress, step by step
    heap,                   \* arrays obtained with new[] and released with delete[]
    rx                      \* the SCS::syncReadPacketRx call in progress, pass by pass

instVars == <<Level, End, Error>>
cmdVars  == <<txBuf, wire, op, ret, nData>>
syncVars == <<syncReadRxPacketIndex, syncReadRxPacketLen, syncReadRxPacket,
              syncReadRxBuff, syncReadRxBuffLen, syncReadRxBuffMax, scan, rxLog, nTx>>
auxVars  == <<Err, rd, heap, rx>>
vars == <<Level, End, Error, txBuf, wire, op, ret, nData,
          syncReadRxPacketIndex, syncReadRxPacketLen, syncReadRxPacket,
          syncReadRxBuff, syncReadRxBuffLen, syncReadRxBuffMax, scan, rxLog, nTx,
          Err, rd, heap, rx>>

(***************************************************************************)
(* Protocol constants (INST.h)                                             *)
(***************************************************************************)
INST_PING == 1
INST_READ == 2
INST_WRITE == 3
INST_REG_WRITE == 4
INST_REG_ACTION == 5
INST_SYNC_READ == 130
INST_SYNC_WRITE == 131
SCSERVO_BUFFER_SIZE == 255
SCSERVO_HEADER_SIZE == 6
SCSERVO_MAX_DATA_SIZE == SCSERVO_BUFFER_SIZE - SCSERVO_HEADER_SIZE
BROADCAST_ID == 254

(***************************************************************************)
(* Bounds of the model                                                     *)
(***************************************************************************)
\* largest node count of the small syncWrite shapes
MaxNodes == 2

\* syncReadPacketRx calls followed after one syncReadPacketTx
MaxExtracts == 3

\* syncReadPacketTx calls followed on one instance
MaxTransmits == 1

\* capacity of the raw buffers of arbitrary content
MaxRawLen == 8

\* syncReadPacketRx calls followed on one raw buffer of arbitrary content
MaxScans == 1

\* A null pointer argument; no byte sequence equals it.
NULL == <<-1>>

(***************************************************************************)
(* Fixed-width arithmetic                                                  *)
(***************************************************************************)
\* conversion of an int to u8
U8(x) == x % 256

\* conversion of an int to u16
U16(x) == x % 65536

\* the 8-bit two's-complement negation: -x where the code has ~x
Neg8(x) == (256 - (x % 256)) % 256

\* ~x of a u8 x, converted back to u8
Not8(x) == 255 - (x % 256)

RECURSIVE SumRange(_, _, _)
\* s[lo] + ... + s[hi], split in halves to keep the evaluation depth small
SumRange(s, lo, hi) ==
    IF lo > hi THEN 0
    ELSE IF hi - lo < 4
         THEN s[lo] + (IF lo + 1 <= hi THEN s[lo + 1] ELSE 0)
                    + (IF lo + 2 <= hi THEN s[lo + 2] ELSE 0)
                    + (IF lo + 3 <= hi THEN s[lo + 3] ELSE 0)
    ELSE LET mid == (lo + hi) \div 2
         IN  SumRange(s, lo, mid) + SumRange(s, mid + 1, hi)

\* the running "CheckSum += nDat[i]" loops, before reduction to u8
SumBytes(s) == SumRange(s, 1, Len(s))

Min(a, b) == IF a < b THEN a ELSE b

\* n bytes all equal to f
Fill(n, f) == [i \in 1..n |-> f]

(***************************************************************************)
(* Transport: SCSerial staging buffer and the log of transport calls       *)
(***************************************************************************)
EvRFlush == [ev |-> "rFlush", bytes |-> <<>>, n |-> 0]
EvWrite(b) == [ev |-> "write", bytes |-> b, n |-> Len(b)]
EvRead(n, got) == [ev |-> "read", bytes |-> got, n |-> n]

\* int SCSerial::writeSCS(unsigned char *nDat, int nLen): the whole chunk is
\* dropped when it does not fit the staging buffer
writeSCS(tx, nDat) ==
    IF nDat = NULL THEN tx
    ELSE IF Len(tx) + Len(nDat) > SCSERVO_BUFFER_SIZE THEN tx
    ELSE tx \o nDat

\* int SCSerial::writeSCS(unsigned char bDat)
writeSCSByte(tx, bDat) ==
    IF Len(tx) >= SCSERVO_BUFFER_SIZE THEN tx
    ELSE Append(tx, U8(bDat))

\* wFlushSCS that sends the staged bytes without resetting txBufLen
wFlushSCS_KeepsStaged(tx, w) ==
    IF Len(tx) # 0 THEN [tx |-> tx, wire |-> Append(w, EvWrite(tx))]
    ELSE [tx |-> tx, wire |-> w]

\* void SCSerial::wFlushSCS(): hands the staged bytes to the device
wFlushSCS(tx, w) ==
    IF Len(tx) # 0 THEN [tx |-> <<>>, wire |-> Append(w, EvWrite(tx))]
    ELSE [tx |-> tx, wire |-> w]

\* int SCSerial::readSCS(nDat, nLen) when the bus delivers the bytes `bus`
\* before the timeout: at most nLen of them are taken
readSCS(bus, nLen) == SubSeq(bus, 1, Min(nLen, Len(bus)))

(***************************************************************************)
(* Frame construction                                                      *)
(***************************************************************************)
\* void SCS::writeBuf(u8 ID, u8 MemAddr, u8 *nDat, u8 nLen, u8 Fun)
writeBuf(tx, ID, MemAddr, nDat, nLen, Fun) ==
    LET msgLen == IF nDat # NULL THEN U8(2 + nLen + 1) ELSE 2
        bBuf == IF nDat # NULL
                THEN <<255, 255, ID, msgLen, Fun, MemAddr>>
                ELSE <<255, 255, ID, msgLen, Fun>>
        t1 == writeSCS(tx, bBuf)
        CheckSum0 == U8(ID + msgLen + Fun + MemAddr)
        CheckSum == IF nDat # NULL
                    THEN U8(CheckSum0 + SumBytes(SubSeq(nDat, 1, nLen)))
                    ELSE CheckSum0
        t2 == IF nDat # NULL THEN writeSCS(t1, SubSeq(nDat, 1, nLen)) ELSE t1
    IN  writeSCSByte(t2, Not8(CheckSum))

(***************************************************************************)
(* Acknowledgement                                                         *)
(***************************************************************************)
\* the sum starts one byte late and leaves the address byte out
calSumOf_SkipsAddr(bBuf, Size) == Not8(SumBytes(SubSeq(bBuf, 4, Size - 1)))

\* "calSum += bBuf[i]" for i = 2 .. Size-2, then "calSum = ~calSum"
calSumOf(bBuf, Size) == Not8(SumBytes(SubSeq(bBuf, 3, Size - 1)))

\* Ack with the address comparison left out
AckAccepts_NoAddr(bBuf, Size, ID) ==
    /\ Size = 6
    /\ ~(bBuf[1] # 255 \/ bBuf[2] # 255)
    /\ ~(bBuf[4] # 2)
    /\ ~(calSumOf(bBuf, Size) # bBuf[Size])

\* the checks of SCS::Ack on the Size bytes it received; TRUE when none of
\* them returns 0
AckAccepts(bBuf, Size, ID) ==
    /\ Size = 6
    /\ ~(bBuf[1] # 255 \/ bBuf[2] # 255)
    /\ ~(bBuf[3] # ID)
    /\ ~(bBuf[4] # 2)
    /\ ~(calSumOf(bBuf, Size) # bBuf[Size])

\* the wait is skipped for the broadcast address only
AckExpected_IgnoresLevel(ID, Lvl) == ID # BROADCAST_ID

\* the wait is skipped at response level 0 only
AckExpected_IgnoresBroadcast(ID, Lvl) == Lvl # 0

\* "if(ID!=0xfe && Level)": whether SCS::Ack waits for a response
AckExpected(ID, Lvl) == ID # BROADCAST_ID /\ Lvl # 0

\* Ack that waits a second time when the first wait brought no valid
\* acknowledgement
Ack_Retries(ID, bus, w) ==
    IF AckExpected(ID, Level)
    THEN LET bBuf == readSCS(bus, 6)
             Size == Len(bBuf)
             w2 == Append(w, EvRead(6, bBuf))
         IN  IF AckAccepts(bBuf, Size, ID)
             THEN [ret |-> 1, Error |-> bBuf[5], wire |-> w2]
             ELSE [ret |-> 0, Error |-> 0, wire |-> Append(w2, EvRead(6, <<>>))]
    ELSE [ret |-> 1, Error |-> 0, wire |-> w]

\* int SCS::Ack(u8 ID); `bus` is what the bus would deliver, `w` the log of
\* transport calls so far
Ack(ID, bus, w) ==
    IF AckExpected(ID, Level)
    THEN LET bBuf == readSCS(bus, 6)
             Size == Len(bBuf)
             w2 == Append(w, EvRead(6, bBuf))
         IN  IF AckAccepts(bBuf, Size, ID)
             THEN [ret |-> 1, Error |-> bBuf[5], wire |-> w2]
             ELSE [ret |-> 0, Error |-> 0, wire |-> w2]
    ELSE [ret |-> 1, Error |-> 0, wire |-> w]

(***************************************************************************)
(* Inputs of the command executor                                          *)
(***************************************************************************)
IDSet == {1, BROADCAST_ID}
MemAddrSet == {0, 42}
LevelSet == {0, 1}
EndSet == {0, 1}
StatusSet == {0, 32}
LongLens == {248, 249, 253}
PayloadSet == {<<>>, <<1, 2>>} \cup {Fill(n, 7) : n \in LongLens}

\* the address of another node on the bus
OtherID(ID) == IF ID = 2 THEN 1 ELSE 2

\* response data of n bytes
DataSet(n) == {Fill(n, 17)} \cup (IF n = 2 THEN {<<1, 2>>} ELSE {})

\* FF FF addr len status data CHK, with CHK off by e from the valid checksum
RespFrame(hdr, a, l, s, d, e) ==
    hdr \o <<a, l, s>> \o d \o <<U8(Not8(a + l + s + SumBytes(d)) + e)>>

\* what the bus may deliver after a request to ID that asks for n data bytes:
\* nothing; the well-formed response; or a response with one defect: a wrong
\* header byte, another node's address, a wrong length byte, a wrong
\* checksum, or the last byte missing.  Every frame but the one with the
\* wrong checksum carries the checksum that is valid for its own bytes.
Bus(ID, n) ==
    LET H == <<255, 255>>
        good == {RespFrame(H, ID, U8(n + 2), s, d, 0) : s \in StatusSet, d \in DataSet(n)}
        bad == UNION {{RespFrame(<<255, 0>>, ID, U8(n + 2), 0, d, 0),
                       RespFrame(<<0, 255>>, ID, U8(n + 2), 0, d, 0),
                       RespFrame(H, OtherID(ID), U8(n + 2), 0, d, 0),
                       RespFrame(H, ID, U8(n + 3), 0, d, 0),
                       RespFrame(H, ID, U8(n + 2), 0, d, 1)} : d \in DataSet(n)}
    IN  {<<>>} \cup good \cup bad \cup {SubSeq(f, 1, Len(f) - 1) : f \in good}

\* a write-class request to the broadcast address is answered by no node
AckBus(ID) == IF ID = BROADCAST_ID THEN {<<>>} ELSE Bus(ID, 0)

\* Read returns before sending anything when it rejects its arguments
ReadBus(ID, buf0, nLen) ==
    IF buf0 = NULL \/ nLen > SCSERVO_MAX_DATA_SIZE THEN {<<>>} ELSE Bus(ID, nLen)

\* record of a call: the operation, its arguments, and what the bus delivers
OpRec(name, ID, IDs, MemAddr, nDat, nLen, bus) ==
    [name |-> name, ID |-> ID, IDs |-> IDs, MemAddr |-> MemAddr, nDat |-> nDat,
     nLen |-> nLen, bus |-> bus]

NoOp == OpRec("none", 0, <<>>, 0, <<>>, 0, <<>>)

\* no syncReadPacketRx call in progress
RxIdle == [pc |-> "idle", idx |-> 0]

\* no readSCS call in progress
RdIdle == [pc |-> "idle", nLen |-> 0, rvLen |-> 0, dev |-> "open"]

(***************************************************************************)
(* Initial state: a constructed SCSerial(End, Level) instance of static    *)
(* storage duration, as in the example programs (members the constructors  *)
(* do not set are zero)                                                    *)
(***************************************************************************)
Constructed ==
    /\ Level \in LevelSet
    /\ End \in EndSet
    /\ Error = 0
    /\ txBuf = <<>>
    /\ wire = <<>>
    /\ op = NoOp
    /\ ret = 0
    /\ nData = <<>>
    /\ syncReadRxPacketIndex = 0
    /\ syncReadRxPacketLen = 0
    /\ syncReadRxPacket = <<>>
    /\ syncReadRxBuff = NULL
    /\ syncReadRxBuffLen = 0
    /\ syncReadRxBuffMax = 0
    /\ scan = [from |-> 0, to |-> 0]
    /\ rxLog = <<>>
    /\ nTx = 0
    /\ Err = 0
    /\ rd = RdIdle
    /\ heap = [live |-> 0, stray |-> 0]
    /\ rx = RxIdle

(***************************************************************************)
(* Command executor                                                        *)
(***************************************************************************)
\* the instance the commands run on: SCSerial(0, Level); no command below
\* reads End
Init == Constructed /\ End = 0

\* the body shared by genWrite and regWrite: flush input, stage the frame,
\* send it, wait for the acknowledgement
WriteCall(name, Fun, ID, MemAddr, nDat, nLen, bus) ==
    \E fl \in {wFlushSCS(writeBuf(txBuf, ID, MemAddr, nDat, nLen, Fun), <<EvRFlush>>)} :
        \E a \in {Ack(ID, bus, fl.wire)} :
            /\ txBuf' = fl.tx
            /\ wire' = a.wire
            /\ Error' = a.Error
            /\ ret' = a.ret
            /\ op' = OpRec(name, ID, <<>>, MemAddr, nDat, nLen, bus)
            /\ nData' = <<>>
            /\ UNCHANGED <<Level, End>>
            /\ UNCHANGED syncVars
            /\ UNCHANGED auxVars

\* int SCS::genWrite(u8 ID, u8 MemAddr, u8 *nDat, u8 nLen)
genWrite ==
    \E ID \in IDSet, MemAddr \in MemAddrSet, nDat \in PayloadSet :
        \E bus \in AckBus(ID) :
            WriteCall("genWrite", INST_WRITE, ID, MemAddr, nDat, Len(nDat), bus)

\* int SCS::regWrite(u8 ID, u8 MemAddr, u8 *nDat, u8 nLen)
regWrite ==
    \E ID \in IDSet, MemAddr \in MemAddrSet, nDat \in PayloadSet :
        \E bus \in AckBus(ID) :
            WriteCall("regWrite", INST_REG_WRITE, ID, MemAddr, nDat, Len(nDat), bus)

\* int SCS::RegWriteAction(u8 ID)
RegWriteAction ==
    \E ID \in IDSet :
        \E bus \in AckBus(ID) :
            WriteCall("RegWriteAction", INST_REG_ACTION, ID, 0, NULL, 0, bus)

\* the caller's buffer before a Read of nLen bytes: nLen bytes, or no buffer
CallerBuf(nLen) == {Fill(nLen, 170), NULL}

\* request lengths of Read
ReadLens == {0, 1, 2, 249, 250}

\* Read with the checksum comparison left out
ReadAccepts_NoSum(bBuf, Size, nLen) ==
    /\ ~(Size # nLen + 6)
    /\ ~(bBuf[1] # 255 \/ bBuf[2] # 255)

\* the checks of SCS::Read on the Size bytes it received; TRUE when none of
\* them returns 0
ReadAccepts(bBuf, Size, nLen) ==
    /\ ~(Size # nLen + 6)
    /\ ~(bBuf[1] # 255 \/ bBuf[2] # 255)
    /\ ~(calSumOf(bBuf, Size) # bBuf[Size])

\* Read with the length limit taken from the buffer size instead of the
\* largest data size
ReadBody_LimitIsBuffer(tx, ID, MemAddr, buf0, nLen, bus) ==
    IF buf0 = NULL
    THEN [ret |-> 0, Error |-> Error, nData |-> buf0, tx |-> tx, wire |-> <<>>]
    ELSE IF nLen > SCSERVO_BUFFER_SIZE
    THEN [ret |-> 0, Error |-> Error, nData |-> buf0, tx |-> tx, wire |-> <<>>]
    ELSE LET fl == wFlushSCS(writeBuf(tx, ID, MemAddr, <<nLen>>, 1, INST_READ), <<EvRFlush>>)
             bBuf == readSCS(bus, nLen + 6)
             Size == Len(bBuf)
             w2 == Append(fl.wire, EvRead(nLen + 6, bBuf))
         IN  IF ReadAccepts(bBuf, Size, nLen)
             THEN [ret |-> nLen, Error |-> bBuf[5],
                   nData |-> SubSeq(bBuf, 6, 5 + nLen) \o SubSeq(buf0, nLen + 1, Len(buf0)),
                   tx |-> fl.tx, wire |-> w2]
             ELSE [ret |-> 0, Error |-> Error, nData |-> buf0, tx |-> fl.tx, wire |-> w2]

\* int SCS::Read(u8 ID, u8 MemAddr, u8 *nData, u8 nLen); the result holds
\* the return value, the cached status, the caller's buffer, the staging
\* buffer and the transport calls
ReadBody(tx, ID, MemAddr, buf0, nLen, bus) ==
    IF buf0 = NULL
    THEN [ret |-> 0, Error |-> Error, nData |-> buf0, tx |-> tx, wire |-> <<>>]
    ELSE IF nLen > SCSERVO_MAX_DATA_SIZE
    THEN [ret |-> 0, Error |-> Error, nData |-> buf0, tx |-> tx, wire |-> <<>>]
    ELSE LET fl == wFlushSCS(writeBuf(tx, ID, MemAddr, <<nLen>>, 1, INST_READ), <<EvRFlush>>)
             bBuf == readSCS(bus, nLen + 6)
             Size == Len(bBuf)
             w2 == Append(fl.wire, EvRead(nLen + 6, bBuf))
         IN  IF ReadAccepts(bBuf, Size, nLen)
             THEN [ret |-> nLen, Error |-> bBuf[5],
                   nData |-> SubSeq(bBuf, 6, 5 + nLen) \o SubSeq(buf0, nLen + 1, Len(buf0)),
                   tx |-> fl.tx, wire |-> w2]
             ELSE [ret |-> 0, Error |-> Error, nData |-> buf0, tx |-> fl.tx, wire |-> w2]

Read ==
    \E ID \in IDSet, MemAddr \in MemAddrSet, nLen \in ReadLens :
        \E buf0 \in CallerBuf(nLen) :
          \E bus \in ReadBus(ID, buf0, nLen) :
            \E r \in {ReadBody(txBuf, ID, MemAddr, buf0, nLen, bus)} :
                /\ txBuf' = r.tx
                /\ wire' = r.wire
                /\ Error' = r.Error
                /\ ret' = r.ret
                /\ nData' = r.nData
                /\ op' = OpRec("Read", ID, <<>>, MemAddr, buf0, nLen, bus)
                /\ UNCHANGED <<Level, End>>
                /\ UNCHANGED syncVars
                /\ UNCHANGED auxVars

\* the checks of SCS::Ping on the Size bytes it received; TRUE when none of
\* them returns -1
PingAccepts(bBuf, Size, ID) ==
    /\ Size = 6
    /\ ~(bBuf[1] # 255 \/ bBuf[2] # 255)
    /\ ~(bBuf[3] # ID /\ ID # BROADCAST_ID)
    /\ ~(bBuf[4] # 2)
    /\ ~(calSumOf(bBuf, Size) # bBuf[Size])

\* Ping that discards stale input only after it has sent the frame
PingBody_FlushLate(tx, ID, bus) ==
    LET fl == wFlushSCS(writeBuf(tx, ID, 0, NULL, 0, INST_PING), <<>>)
        bBuf == readSCS(bus, 6)
        Size == Len(bBuf)
        w2 == fl.wire \o <<EvRFlush, EvRead(6, bBuf)>>
    IN  IF PingAccepts(bBuf, Size, ID)
        THEN [ret |-> bBuf[3], Error |-> bBuf[3], tx |-> fl.tx, wire |-> w2]
        ELSE [ret |-> -1, Error |-> 0, tx |-> fl.tx, wire |-> w2]

\* int SCS::Ping(u8 ID)
PingBody(tx, ID, bus) ==
    LET fl == wFlushSCS(writeBuf(tx, ID, 0, NULL, 0, INST_PING), <<EvRFlush>>)
        bBuf == readSCS(bus, 6)
        Size == Len(bBuf)
        w2 == Append(fl.wire, EvRead(6, bBuf))
    IN  IF PingAccepts(bBuf, Size, ID)
        THEN [ret |-> bBuf[3], Error |-> bBuf[3], tx |-> fl.tx, wire |-> w2]
        ELSE [ret |-> -1, Error |-> 0, tx |-> fl.tx, wire |-> w2]

Ping ==
    \E ID \in IDSet :
        \E bus \in Bus(ID, 0) :
            \E r \in {PingBody(txBuf, ID, bus)} :
                /\ txBuf' = r.tx
                /\ wire' = r.wire
                /\ Error' = r.Error
                /\ ret' = r.ret
                /\ op' = OpRec("Ping", ID, <<>>, 0, NULL, 0, bus)
                /\ nData' = <<>>
                /\ UNCHANGED <<Level, End>>
                /\ UNCHANGED syncVars
                /\ UNCHANGED auxVars

RECURSIVE SyncWriteLoop(_, _, _, _, _, _)
\* the "for(i=0; i<IDN; i++)" loop of SCS::syncWrite from iteration i on;
\* tx is the staging buffer and Sum the running u8 checksum
SyncWriteLoop(tx, Sum, ID, nDat, nLen, i) ==
    IF i > Len(ID) THEN [tx |-> tx, Sum |-> Sum]
    ELSE LET chunk == SubSeq(nDat, (i - 1) * nLen + 1, i * nLen)
         IN  SyncWriteLoop(writeSCS(writeSCSByte(tx, ID[i]), chunk),
                           U8(Sum + ID[i] + SumBytes(chunk)), ID, nDat, nLen, i + 1)

\* syncWrite followed by the wait for an acknowledgement of 6 bytes
SyncWriteBody_Acks(tx, ID, IDN, MemAddr, nDat, nLen) ==
    LET mesLen == U8((nLen + 1) * IDN + 4)
        bBuf == <<255, 255, 254, mesLen, INST_SYNC_WRITE, MemAddr, nLen>>
        Sum0 == U8(254 + mesLen + INST_SYNC_WRITE + MemAddr + nLen)
        l == SyncWriteLoop(writeSCS(tx, bBuf), Sum0, ID, nDat, nLen, 1)
        fl == wFlushSCS(writeSCSByte(l.tx, Not8(l.Sum)), <<EvRFlush>>)
    IN  [tx |-> fl.tx, wire |-> Append(fl.wire, EvRead(6, <<>>))]

\* void SCS::syncWrite(u8 ID[], u8 IDN, u8 MemAddr, u8 *nDat, u8 nLen)
SyncWriteBody(tx, ID, IDN, MemAddr, nDat, nLen) ==
    LET mesLen == U8((nLen + 1) * IDN + 4)
        bBuf == <<255, 255, 254, mesLen, INST_SYNC_WRITE, MemAddr, nLen>>
        Sum0 == U8(254 + mesLen + INST_SYNC_WRITE + MemAddr + nLen)
        l == SyncWriteLoop(writeSCS(tx, bBuf), Sum0, ID, nDat, nLen, 1)
    IN  wFlushSCS(writeSCSByte(l.tx, Not8(l.Sum)), <<EvRFlush>>)

\* node counts and per-node payload lengths of syncWrite: every small shape,
\* and one whose frame exceeds 255 bytes
SyncWriteShapes == ((0..MaxNodes) \X (0..2)) \cup {<<2, 130>>}

syncWrite ==
    \E shape \in SyncWriteShapes, MemAddr \in MemAddrSet :
        \E fl \in {SyncWriteBody(txBuf, [i \in 1..shape[1] |-> i], shape[1], MemAddr,
                                  Fill(shape[1] * shape[2], 7), shape[2])} :
            /\ txBuf' = fl.tx
            /\ wire' = fl.wire
            /\ ret' = 0
            /\ nData' = <<>>
            /\ op' = OpRec("syncWrite", BROADCAST_ID, [i \in 1..shape[1] |-> i], MemAddr,
                           Fill(shape[1] * shape[2], 7), shape[2], <<>>)
            /\ UNCHANGED <<Level, End, Error>>
            /\ UNCHANGED syncVars
            /\ UNCHANGED auxVars

Next ==
    \/ genWrite
    \/ regWrite
    \/ RegWriteAction
    \/ Read
    \/ Ping
    \/ syncWrite

Spec == Init /\ [][Next]_vars

(***************************************************************************)
(* Sync read session                                                       *)
(***************************************************************************)
\* values an uninitialised or out-of-allocation byte may have
GarbageSet == {0, 255}

\* byte at 0-based index i of the raw buffer; g stands for memory beyond it
RawAt(raw, i, g) == IF i < Len(raw) THEN raw[i + 1] ELSE g

\* every bounds check compares with > instead of >=
PastEnd_OffByOne(idx, len) == idx > len

\* "if(syncReadRxBuffIndex >= syncReadRxBuffLen)": no byte left to read
PastEnd(idx, len) == idx >= len

\* the scan resumes where the previous call stopped
RxStart_Persist(prev) == prev

\* "u16 syncReadRxBuffIndex = 0;": where a call of syncReadPacketRx starts
\* scanning, given where the previous call stopped
RxStart(prev) == 0

\* the inner loop reads no byte and leaves its window as it was
ScanHeader_Stuck(raw, len, idx, bBuf, g) == [idx |-> idx, bBuf |-> bBuf]

RECURSIVE ScanHeader(_, _, _, _, _)
\* the inner while loop of syncReadPacketRx: slide the 3-byte window bBuf
\* until it holds FF FF x with x # FF, or the received bytes are used up
ScanHeader(raw, len, idx, bBuf, g) ==
    IF idx < len
    THEN LET nb == <<bBuf[2], bBuf[3], RawAt(raw, idx, g)>>
         IN  IF nb[1] = 255 /\ nb[2] = 255 /\ nb[3] # 255
             THEN [idx |-> idx + 1, bBuf |-> nb]
             ELSE ScanHeader(raw, len, idx + 1, nb, g)
    ELSE [idx |-> idx, bBuf |-> bBuf]

RECURSIVE CopyData(_, _, _, _, _, _, _, _)
\* the for loop of syncReadPacketRx from iteration i on (0-based): copy the
\* data bytes into the caller's buffer pkt, summing them into calSum
CopyData(raw, len, idx, i, n, pkt, calSum, g) ==
    IF i >= n THEN [ok |-> TRUE, idx |-> idx, pkt |-> pkt, calSum |-> calSum]
    ELSE IF PastEnd(idx, len) THEN [ok |-> FALSE, idx |-> idx, pkt |-> pkt, calSum |-> calSum]
    ELSE LET b == RawAt(raw, idx, g)
         IN  CopyData(raw, len, idx + 1, i + 1, n, [pkt EXCEPT ![i + 1] = b],
                      U8(calSum + b), g)

RECURSIVE RxLoop(_, _, _, _, _, _, _, _)
\* the outer while loop of syncReadPacketRx from buffer index idx on; n is
\* syncReadRxPacketLen, pkt the caller's buffer, err the cached status
RxLoop(raw, len, n, ID, idx, pkt, err, g) ==
    IF ~(idx + 6 + n <= len)
    THEN [ret |-> 0, idx |-> idx, pkt |-> pkt, Error |-> err]
    ELSE LET h == ScanHeader(raw, len, idx, <<0, 0, 0>>, g)
         IN  IF h.bBuf[3] # ID THEN RxLoop(raw, len, n, ID, h.idx, pkt, err, g)
             ELSE IF PastEnd(h.idx, len)
             THEN [ret |-> 0, idx |-> h.idx, pkt |-> pkt, Error |-> err]
             ELSE IF RawAt(raw, h.idx, g) # n + 2
             THEN RxLoop(raw, len, n, ID, h.idx + 1, pkt, err, g)
             ELSE IF PastEnd(h.idx + 1, len)
             THEN [ret |-> 0, idx |-> h.idx + 1, pkt |-> pkt, Error |-> err]
             ELSE LET err2 == RawAt(raw, h.idx + 1, g)
                      c == CopyData(raw, len, h.idx + 2, 0, n, pkt,
                                    U8(ID + (n + 2) + err2), g)
                  IN  IF ~c.ok
                      THEN [ret |-> 0, idx |-> c.idx, pkt |-> c.pkt, Error |-> err2]
                      ELSE IF PastEnd(c.idx, len)
                      THEN [ret |-> 0, idx |-> c.idx, pkt |-> c.pkt, Error |-> err2]
                      ELSE IF Not8(c.calSum) # RawAt(raw, c.idx, g)
                      THEN [ret |-> 0, idx |-> c.idx + 1, pkt |-> c.pkt, Error |-> err2]
                      ELSE [ret |-> n, idx |-> c.idx + 1, pkt |-> c.pkt, Error |-> err2]

\* int SCS::syncReadPacketRx(u8 ID, u8 *nDat); from is where the scan starts
SyncReadPacketRxBody(ID, nDat, from, g) ==
    IF nDat = NULL \/ syncReadRxBuff = NULL
    THEN [ret |-> 0, idx |-> from, pkt |-> nDat, Error |-> Error, entered |-> FALSE]
    ELSE LET r == RxLoop(syncReadRxBuff, syncReadRxBuffLen, syncReadRxPacketLen, ID,
                         from, nDat, Error, g)
         IN  [ret |-> r.ret, idx |-> r.idx, pkt |-> r.pkt, Error |-> r.Error,
              entered |-> TRUE]

\* the effect of one call syncReadPacketRx(ID, nDat) on the state
RxCall(ID, nDat, g) ==
    \E r \in {SyncReadPacketRxBody(ID, nDat, RxStart(scan.to), g)} :
        /\ ret' = r.ret
        /\ Error' = r.Error
        /\ syncReadRxPacket' = IF r.entered THEN r.pkt ELSE syncReadRxPacket
        /\ syncReadRxPacketIndex' = IF r.entered THEN 0 ELSE syncReadRxPacketIndex
        /\ scan' = IF r.entered THEN [from |-> RxStart(scan.to), to |-> r.idx] ELSE scan
        /\ rxLog' = Append(rxLog, [ID |-> ID, ret |-> r.ret, pkt |-> r.pkt])
        /\ op' = OpRec("syncReadPacketRx", ID, <<>>, 0, nDat, syncReadRxPacketLen, <<>>)
        /\ wire' = <<>>
        /\ nData' = <<>>
        /\ UNCHANGED <<Level, End, txBuf, syncReadRxPacketLen, syncReadRxBuff,
                       syncReadRxBuffLen, syncReadRxBuffMax, nTx>>
        /\ UNCHANGED auxVars

\* a pointer member that was never assigned: neither null nor an array
\* obtained from new[]
WILD == <<-2>>

\* if(p){ delete[] p; }: the array behind p returns to the heap; a p that is
\* not null and was not obtained from new[] is released all the same
Released(h, p) ==
    IF p = NULL THEN h
    ELSE IF p = WILD THEN [h EXCEPT !.stray = 1]
    ELSE [h EXCEPT !.live = @ - 1]

\* new u8[...]
Allocated(h) == [h EXCEPT !.live = @ + 1]

\* syncReadBegin that also records rxLen as the per-node data length
SyncReadBeginCall_StoresLen(IDN, rxLen, fresh) ==
    /\ syncReadRxBuffMax' = U16(IDN * (rxLen + 6))
    /\ syncReadRxBuff' = Fill(U16(IDN * (rxLen + 6)), fresh)
    /\ syncReadRxPacketLen' = rxLen
    /\ op' = OpRec("syncReadBegin", 0, <<>>, 0, <<>>, rxLen, <<>>)
    /\ ret' = 0
    /\ wire' = <<>>
    /\ nData' = <<>>
    /\ heap' = Allocated(Released(heap, syncReadRxBuff))
    /\ UNCHANGED <<Level, End, Error, txBuf, syncReadRxPacketIndex,
                   syncReadRxPacket, syncReadRxBuffLen, scan, rxLog, nTx, Err, rd, rx>>

\* void SCS::syncReadBegin(u8 IDN, u8 rxLen); fresh is the content of the
\* newly allocated array
SyncReadBeginCall(IDN, rxLen, fresh) ==
    /\ syncReadRxBuffMax' = U16(IDN * (rxLen + 6))
    /\ syncReadRxBuff' = Fill(U16(IDN * (rxLen + 6)), fresh)
    /\ op' = OpRec("syncReadBegin", 0, <<>>, 0, <<>>, rxLen, <<>>)
    /\ ret' = 0
    /\ wire' = <<>>
    /\ nData' = <<>>
    /\ heap' = Allocated(Released(heap, syncReadRxBuff))
    /\ UNCHANGED <<Level, End, Error, txBuf, syncReadRxPacketIndex, syncReadRxPacketLen,
                   syncReadRxPacket, syncReadRxBuffLen, scan, rxLog, nTx, Err, rd, rx>>

\* syncReadEnd that releases the array and keeps the pointer to it
syncReadEnd_KeepsPointer ==
    /\ op' = OpRec("syncReadEnd", 0, <<>>, 0, <<>>, 0, <<>>)
    /\ ret' = 0
    /\ wire' = <<>>
    /\ nData' = <<>>
    /\ heap' = Released(heap, syncReadRxBuff)
    /\ UNCHANGED <<Level, End, Error, txBuf, syncReadRxPacketIndex, syncReadRxPacketLen,
                   syncReadRxPacket, syncReadRxBuff, syncReadRxBuffLen, syncReadRxBuffMax,
                   scan, rxLog, nTx, Err, rd, rx>>

\* void SCS::syncReadEnd()
syncReadEnd ==
    /\ syncReadRxBuff' = NULL
    /\ op' = OpRec("syncReadEnd", 0, <<>>, 0, <<>>, 0, <<>>)
    /\ ret' = 0
    /\ wire' = <<>>
    /\ nData' = <<>>
    /\ heap' = Released(heap, syncReadRxBuff)
    /\ UNCHANGED <<Level, End, Error, txBuf, syncReadRxPacketIndex, syncReadRxPacketLen,
                   syncReadRxPacket, syncReadRxBuffLen, syncReadRxBuffMax, scan, rxLog, nTx,
                   Err, rd, rx>>

RECURSIVE StageBytes(_, _, _)
\* writeSCS(b) for the bytes of s from index i on, one call per byte
StageBytes(tx, s, i) ==
    IF i > Len(s) THEN tx ELSE StageBytes(writeSCSByte(tx, s[i]), s, i + 1)

\* the frame bytes SCS::syncReadPacketTx stages, one writeSCS call each
SyncReadFrame(ID, IDN, MemAddr, nLen) ==
    LET checkSum == U8((4 + 254) + IDN + MemAddr + nLen + INST_SYNC_READ
                       + SumBytes(SubSeq(ID, 1, IDN)))
    IN  <<255, 255, 254, U8(IDN + 4), INST_SYNC_READ, MemAddr, nLen>>
            \o SubSeq(ID, 1, IDN) \o <<Not8(checkSum)>>

\* int SCS::syncReadPacketTx(u8 ID[], u8 IDN, u8 MemAddr, u8 nLen)
SyncReadPacketTxCall(ID, IDN, MemAddr, nLen, bus) ==
    \E fl \in {wFlushSCS(StageBytes(txBuf, SyncReadFrame(ID, IDN, MemAddr, nLen), 1),
                         <<EvRFlush>>)} :
        \E got \in {readSCS(bus, syncReadRxBuffMax)} :
            /\ syncReadRxPacketLen' = nLen
            /\ txBuf' = fl.tx
            /\ wire' = Append(fl.wire, EvRead(syncReadRxBuffMax, got))
            /\ syncReadRxBuff' = IF syncReadRxBuff = NULL THEN NULL
                                 ELSE got \o SubSeq(syncReadRxBuff, Len(got) + 1,
                                                    Len(syncReadRxBuff))
            /\ syncReadRxBuffLen' = U16(Len(got))
            /\ ret' = U16(Len(got))
            /\ op' = OpRec("syncReadPacketTx", BROADCAST_ID, ID, MemAddr, <<>>, nLen, bus)
            /\ rxLog' = <<>>
            /\ nTx' = nTx + 1
            /\ scan' = [from |-> 0, to |-> 0]
            /\ nData' = <<>>
            /\ UNCHANGED <<Level, End, Error, syncReadRxPacketIndex, syncReadRxPacket,
                           syncReadRxBuffMax>>
            /\ UNCHANGED auxVars

(***************************************************************************)
(* Inputs of the sync read session                                         *)
(***************************************************************************)
\* per-node data lengths
SyncLens == {2}

\* the nodes A, B, C of a sync read
SyncNodes == 1..3

\* node counts a session is sized for: one node, or all of them
SyncCounts == {1, Cardinality(SyncNodes)}

\* the first n node addresses
IDList(n) == [i \in 1..n |-> i]

\* data of L bytes in the response of node i, without any FF byte: variant 1
\* is distinct for every node; variant 2 makes the frame's checksum FF
NodePayload(i, L, v) ==
    IF v = 1 THEN [k \in 1..L |-> 16 * i + k]
    ELSE [k \in 1..L |-> IF k = 1 THEN U8(254 - i - L) ELSE 0]

\* the well-formed response FF FF i L+2 status data CHK of node i
NodeFrame(i, L, v) == RespFrame(<<255, 255>>, i, L + 2, 0, NodePayload(i, L, v), 0)

RECURSIVE Answers(_, _, _, _, _)
\* the responses of the nodes of `who` among i .. n, in the order of the
\* request
Answers(who, i, n, L, v) ==
    IF i > n THEN <<>>
    ELSE (IF i \in who THEN NodeFrame(i, L, v) ELSE <<>>) \o Answers(who, i + 1, n, L, v)

\* what the bus may deliver after a sync read of L bytes from nodes 1 .. n:
\* the frames of the nodes that answer, complete or with the last one or two
\* bytes missing
SyncBus(n, L) ==
    LET whole == {Answers(who, 1, n, L, 1) : who \in SUBSET (1..n)}
        all == Answers(1..n, 1, n, L, 1)
    IN  whole \cup {Answers(1..n, 1, n, L, 2)}
              \cup {SubSeq(all, 1, Len(all) - k) : k \in {1, 2}}

\* the instance the session runs on: SCSerial(End, 1); no session operation
\* reads Level
InitSync == Constructed /\ Level = 1

syncReadBegin ==
    \E IDN \in SyncCounts, rxLen \in SyncLens, fresh \in GarbageSet :
        SyncReadBeginCall(IDN, rxLen, fresh)

\* with no buffer allocated the received bytes cannot be stored; the call is
\* followed here only when nothing arrives
syncReadPacketTx ==
    /\ nTx < MaxTransmits
    /\ \E IDN \in {Cardinality(SyncNodes)}, nLen \in SyncLens :
        \E bus \in (IF syncReadRxBuff = NULL THEN {<<>>} ELSE SyncBus(IDN, nLen)) :
            SyncReadPacketTxCall(IDList(IDN), IDN, 56, nLen, bus)

syncReadPacketRx ==
    /\ Len(rxLog) < MaxExtracts
    /\ \E ID \in SyncNodes :
        \E nDat \in {Fill(syncReadRxPacketLen, 170)} :
            \E g \in (IF syncReadRxBuff # NULL /\ syncReadRxBuffLen > Len(syncReadRxBuff)
                      THEN GarbageSet ELSE {0}) :
                RxCall(ID, nDat, g)

NextSync ==
    \/ syncReadBegin
    \/ syncReadPacketTx
    \/ syncReadPacketRx
    \/ syncReadEnd

SpecSync == InitSync /\ [][NextSync]_vars

(***************************************************************************)
(* syncReadPacketRx on arbitrary raw buffers                               *)
(***************************************************************************)
\* bytes of the arbitrary buffers: the header byte FF, and two bytes that
\* serve as node address, length byte (1 + 2), status, data and checksum:
\* FF FF 03 03 03 03 F3 and FF FF F3 03 03 03 03 are well-formed frames
ScanAlphabet == {255, 3, 243}

\* target addresses tried on them
ScanIDs == {3, 243}

\* per-node data lengths tried on them
ScanLens == {1}

\* raw buffers: every content of MaxRawLen bytes over the alphabet, and the
\* two-node responses in both orders
ScanBuffers ==
    [1..MaxRawLen -> ScanAlphabet]
        \cup {RespFrame(<<255, 255>>, a, 3, 3, <<3>>, 0) \o RespFrame(<<255, 255>>, b, 3, 3, <<3>>, 0) :
                 a \in ScanIDs, b \in ScanIDs}

\* a session whose buffer holds any bytes, of which any number was received
\* by the last syncReadPacketTx (the rest is stale)
InitScan ==
    /\ Level = 1
    /\ End = 0
    /\ Error = 0
    /\ txBuf = <<>>
    /\ wire = <<>>
    /\ op = NoOp
    /\ ret = 0
    /\ nData = <<>>
    /\ syncReadRxPacketIndex = 0
    /\ syncReadRxPacketLen \in ScanLens
    /\ syncReadRxPacket = <<>>
    /\ syncReadRxBuff \in ScanBuffers
    /\ syncReadRxBuffLen \in 0..Len(syncReadRxBuff)
    /\ syncReadRxBuffMax = Len(syncReadRxBuff)
    /\ scan = [from |-> 0, to |-> 0]
    /\ rxLog = <<>>
    /\ nTx = 1
    /\ Err = 0
    /\ rd = RdIdle
    /\ heap = [live |-> 1, stray |-> 0]
    /\ rx = RxIdle

scanPacketRx ==
    /\ Len(rxLog) < MaxScans
    /\ \E ID \in ScanIDs :
        RxCall(ID, Fill(syncReadRxPacketLen, 170), 0)

NextScan == scanPacketRx

SpecScan == InitScan /\ [][NextScan]_vars

(***************************************************************************)
(* All bus operations on one instance: the commands with short arguments   *)
(* together with the sync read transmit                                    *)
(***************************************************************************)
\* payloads of the writes
BusPayloads == {<<>>, <<1, 2>>}

\* request lengths of the reads: one accepted and one rejected
BusReadLens == {2, 250}

\* the three outcomes of a wait for n data bytes from ID: timeout, the
\* well-formed response, and a response with a wrong checksum
BusOutcomes(ID, n) ==
    {<<>>, RespFrame(<<255, 255>>, ID, U8(n + 2), 32, Fill(n, 17), 0),
           RespFrame(<<255, 255>>, ID, U8(n + 2), 32, Fill(n, 17), 1)}

InitBus == Constructed /\ End = 0

busGenWrite ==
    \E ID \in IDSet, nDat \in BusPayloads :
        \E bus \in (IF ID = BROADCAST_ID THEN {<<>>} ELSE BusOutcomes(ID, 0)) :
            WriteCall("genWrite", INST_WRITE, ID, 42, nDat, Len(nDat), bus)

busRegWrite ==
    \E ID \in IDSet, nDat \in BusPayloads :
        \E bus \in (IF ID = BROADCAST_ID THEN {<<>>} ELSE BusOutcomes(ID, 0)) :
            WriteCall("regWrite", INST_REG_WRITE, ID, 42, nDat, Len(nDat), bus)

busRegWriteAction ==
    \E ID \in IDSet :
        \E bus \in (IF ID = BROADCAST_ID THEN {<<>>} ELSE BusOutcomes(ID, 0)) :
            WriteCall("RegWriteAction", INST_REG_ACTION, ID, 0, NULL, 0, bus)

busRead ==
    \E ID \in IDSet, nLen \in BusReadLens :
        \E buf0 \in CallerBuf(nLen) :
          \E bus \in (IF buf0 = NULL \/ nLen > SCSERVO_MAX_DATA_SIZE
                      THEN {<<>>} ELSE BusOutcomes(ID, nLen)) :
            \E r \in {ReadBody(txBuf, ID, 42, buf0, nLen, bus)} :
                /\ txBuf' = r.tx
                /\ wire' = r.wire
                /\ Error' = r.Error
                /\ ret' = r.ret
                /\ nData' = r.nData
                /\ op' = OpRec("Read", ID, <<>>, 42, buf0, nLen, bus)
                /\ UNCHANGED <<Level, End>>
                /\ UNCHANGED syncVars
                /\ UNCHANGED auxVars

busPing ==
    \E ID \in IDSet :
        \E bus \in BusOutcomes(ID, 0) :
            \E r \in {PingBody(txBuf, ID, bus)} :
                /\ txBuf' = r.tx
                /\ wire' = r.wire
                /\ Error' = r.Error
                /\ ret' = r.ret
                /\ op' = OpRec("Ping", ID, <<>>, 0, NULL, 0, bus)
                /\ nData' = <<>>
                /\ UNCHANGED <<Level, End>>
                /\ UNCHANGED syncVars
                /\ UNCHANGED auxVars

busSyncWrite ==
    \E IDN \in {1, 2} :
        \E fl \in {SyncWriteBody(txBuf, IDList(IDN), IDN, 42, Fill(IDN * 2, 7), 2)} :
            /\ txBuf' = fl.tx
            /\ wire' = fl.wire
            /\ ret' = 0
            /\ nData' = <<>>
            /\ op' = OpRec("syncWrite", BROADCAST_ID, IDList(IDN), 42, Fill(IDN * 2, 7), 2,
                           <<>>)
            /\ UNCHANGED <<Level, End, Error>>
            /\ UNCHANGED syncVars
            /\ UNCHANGED auxVars

\* per-node data lengths a session is begun with
BusBeginLens == {2, 4}

busSyncReadBegin ==
    \E IDN \in SyncCounts, rxLen \in BusBeginLens, fresh \in GarbageSet :
        SyncReadBeginCall(IDN, rxLen, fresh)

NextBus ==
    \/ busGenWrite
    \/ busRegWrite
    \/ busRegWriteAction
    \/ busRead
    \/ busPing
    \/ busSyncWrite
    \/ busSyncReadBegin
    \/ syncReadPacketTx

SpecBus == InitBus /\ [][NextBus]_vars

(***************************************************************************)
(* Observations on the last call                                           *)
(***************************************************************************)
\* the byte blocks the last call handed to the device, in order
WireWrites == SelectSeq(wire, LAMBDA e : e.ev = "write")

\* the receive calls of the last call, in order
WireReads == SelectSeq(wire, LAMBDA e : e.ev = "read")

\* the bytes the last call received (<<>> when it did not call receive)
Received == IF WireReads = <<>> THEN <<>> ELSE WireReads[1].bytes

\* the frame the last call transmitted (<<>> when it sent nothing)
Sent == IF WireWrites = <<>> THEN <<>> ELSE WireWrites[1].bytes

IsWriteClass == op.name \in {"genWrite", "regWrite", "RegWriteAction"}

\* b is a complete frame FF FF addr len ... CHK of n data bytes whose
\* checksum is the complement of the 8-bit sum of addr .. last data byte
WellFormed(b, n) ==
    /\ Len(b) = n + 6
    /\ b[1] = 255
    /\ b[2] = 255
    /\ b[Len(b)] = 255 - (SumBytes(SubSeq(b, 3, Len(b) - 1)) % 256)

(***************************************************************************)
(* Claims on the command executor                                          *)
(***************************************************************************)
\* C4: Read(addr, reg, n) returns n with the caller's buffer holding exactly
\* the n data bytes of the response when a complete response of n+6 bytes
\* with a valid FF FF header and a valid checksum was received; in every
\* other case it returns 0 and the caller's buffer is as it was before.
C4_ReadExact ==
    op.name = "Read" =>
        IF WireReads # <<>> /\ WellFormed(Received, op.nLen)
        THEN ret = op.nLen /\ nData = SubSeq(Received, 6, 5 + op.nLen)
        ELSE ret = 0 /\ nData = op.nDat

\* a Read of 2 bytes that delivered the response's data, and the case is not
\* the only one: the response carried <<1, 2>>
C4_Witness ==
    /\ op.name = "Read"
    /\ op.nLen = 2
    /\ ret = 2
    /\ nData = <<1, 2>>
    /\ op.nDat = <<170, 170>>

\* C5 (as claimed): a response of the right size whose address byte differs
\* from addr, or whose length byte differs from n+2, makes Read return 0.
C5_ReadChecksAddrLen ==
    (/\ op.name = "Read"
     /\ WireReads # <<>>
     /\ Len(Received) = op.nLen + 6
     /\ (Received[3] # op.ID \/ Received[4] # U8(op.nLen + 2)))
        => ret = 0

\* C6: for Write, BufferedWrite and BufferedWriteTrigger to a non-broadcast
\* address with acknowledgements enabled, a 6-byte acknowledgement with valid
\* header, length byte 2 and valid checksum but another address byte makes
\* the call return 0.
C6_AckAddress ==
    (/\ IsWriteClass
     /\ op.ID # BROADCAST_ID
     /\ Level # 0
     /\ WellFormed(Received, 0)
     /\ Received[4] = 2
     /\ Received[3] # op.ID)
        => ret = 0

\* a write whose acknowledgement came, intact, from another node
C6_Witness ==
    /\ op.name = "genWrite"
    /\ op.ID = 1
    /\ Level = 1
    /\ WellFormed(Received, 0)
    /\ Received[4] = 2
    /\ Received[3] = 2
    /\ ret = 0

\* C7: Write, BufferedWrite and BufferedWriteTrigger addressed to 0xFE never
\* call the transport's receive, and return success after transmitting.
C7_BroadcastSilent ==
    (IsWriteClass /\ op.ID = BROADCAST_ID) =>
        /\ WireReads = <<>>
        /\ Len(WireWrites) = 1
        /\ ret = 1

\* a broadcast write on an instance that waits for acknowledgements
C7_Witness ==
    /\ op.name = "genWrite"
    /\ op.ID = BROADCAST_ID
    /\ Level = 1
    /\ op.nDat = <<1, 2>>
    /\ ret = 1

C9_ConcreteFrame ==
    (op.name = "genWrite" /\ op.ID = 1 /\ op.MemAddr = 42 /\ op.nDat = <<1, 2>>) =>
        Sent = <<255, 255, 1, 6, 3, 42, 1, 2, 255 - ((1 + 6 + 3 + 42 + 1 + 2) % 256)>>

\* C9 (amended): that Write transmits exactly FF FF 01 05 03 2A 01 02 CHK
\* with CHK = ~(01+05+03+2A+01+02) & FF = C9: the length byte counts the
\* instruction, the register address, the two data bytes and the checksum.
C9_FrameBytes ==
    (op.name = "genWrite" /\ op.ID = 1 /\ op.MemAddr = 42 /\ op.nDat = <<1, 2>>) =>
        /\ Len(WireWrites) = 1
        /\ Sent = <<255, 255, 1, 5, 3, 42, 1, 2, 201>>
        /\ 201 = 255 - ((1 + 5 + 3 + 42 + 1 + 2) % 256)

\* that Write has run
C9_Witness ==
    /\ op.name = "genWrite"
    /\ op.ID = 1
    /\ op.MemAddr = 42
    /\ op.nDat = <<1, 2>>
    /\ Len(Sent) = 9

\* C10 (as claimed): in every transmitted frame the LEN byte equals the
\* number of bytes transmitted from the instruction byte through the
\* checksum byte.
C10_LenMatchesSent ==
    WireWrites # <<>> => Sent[4] = Len(Sent) - 4

(***************************************************************************)
(* Claims on the sync read session                                         *)
(***************************************************************************)
\* the raw buffer holds exactly the well-formed frames of A, B, C (nodes 1,
\* 2, 3) in that order, with 2-byte payloads of variant v
HoldsABC(v) ==
    /\ syncReadRxBuff # NULL
    /\ syncReadRxPacketLen = 2
    /\ syncReadRxBuffLen = 24
    /\ syncReadRxBuffLen <= Len(syncReadRxBuff)
    /\ SubSeq(syncReadRxBuff, 1, syncReadRxBuffLen) = Answers(1..3, 1, 3, 2, v)

\* C1: after one Transmit whose raw buffer holds exactly the well-formed
\* frames of A, B, C in that order, every Extract of A, B or C succeeds and
\* returns that node's own payload, whatever the order of the calls.
C1_ExtractAnyOrder ==
    \A v \in {1, 2} :
        HoldsABC(v) =>
            \A k \in 1..Len(rxLog) :
                rxLog[k].ID \in 1..3 =>
                    /\ rxLog[k].ret = 2
                    /\ rxLog[k].pkt = NodePayload(rxLog[k].ID, 2, v)

\* the extractions C, A, B, in that order, all succeeded
C1_Witness ==
    /\ HoldsABC(1)
    /\ Len(rxLog) = 3
    /\ rxLog[1].ID = 3 /\ rxLog[1].ret = 2
    /\ rxLog[2].ID = 1 /\ rxLog[2].ret = 2
    /\ rxLog[3].ID = 2 /\ rxLog[3].ret = 2 /\ rxLog[3].pkt = <<33, 34>>

\* C2 (as claimed): the scan cursor persists across Extract calls and never
\* rewinds: after a successful Extract(B) on a buffer holding the frames A,
\* B, C, a following Extract(A) returns 0.
C2_CursorPersists ==
    \A v \in {1, 2} :
        HoldsABC(v) =>
            \A k \in 1..(Len(rxLog) - 1) :
                (rxLog[k].ID = 2 /\ rxLog[k].ret # 0 /\ rxLog[k + 1].ID = 1)
                    => rxLog[k + 1].ret = 0

\* C2 (amended): the scan cursor does not persist across Extract calls:
\* every Extract starts scanning at index 0 of the received bytes, so after
\* a successful Extract(B) on a buffer holding the frames A, B, C a following
\* Extract(A) succeeds and returns A's payload.
C2_CursorRestarts ==
    /\ (op.name = "syncReadPacketRx" /\ syncReadRxBuff # NULL) => scan.from = 0
    /\ \A v \in {1, 2} :
        HoldsABC(v) =>
            \A k \in 1..(Len(rxLog) - 1) :
                (rxLog[k].ID = 2 /\ rxLog[k].ret # 0 /\ rxLog[k + 1].ID = 1)
                    => (rxLog[k + 1].ret = 2 /\ rxLog[k + 1].pkt = NodePayload(1, 2, v))

\* Extract(B) succeeded and scanned past A's frame, then Extract(A) ran
C2_Witness ==
    /\ HoldsABC(1)
    /\ Len(rxLog) = 2
    /\ rxLog[1].ID = 2 /\ rxLog[1].ret = 2
    /\ rxLog[2].ID = 1
    /\ op.name = "syncReadPacketRx"
    /\ scan.to = 8

\* the received bytes end with a frame of the target that lacks its last one
\* or two bytes (the checksum, or the last data byte and the checksum),
\* after nothing or after one complete frame of another node
EndsInTruncatedTarget ==
    LET n == syncReadRxPacketLen
        len == syncReadRxBuffLen
        raw == syncReadRxBuff
    IN  \E s \in {0, n + 6} :
            /\ len - s \in {n + 4, n + 5}
            /\ raw[s + 1] = 255 /\ raw[s + 2] = 255
            /\ raw[s + 3] = op.ID /\ raw[s + 4] = n + 2
            /\ s # 0 => (/\ WellFormed(SubSeq(raw, 1, s), n)
                         /\ raw[3] # op.ID /\ raw[3] # 255 /\ raw[4] = n + 2
                         /\ \A j \in 5..(s - 1) : raw[j] # 255)

\* C3: Extract reads raw-buffer indices strictly below rawBufferLength only,
\* for every buffer content, target address and rawBufferLength; and when
\* the received data ends one byte short inside the target's payload, or
\* just before its checksum, Extract returns 0.
C3_ReadsInBounds ==
    op.name = "syncReadPacketRx" =>
        /\ scan.to <= syncReadRxBuffLen
        /\ EndsInTruncatedTarget => ret = 0

\* the second node's frame lacks its checksum, Extract of it has run and has
\* read every received byte
C3_Witness ==
    /\ op.name = "syncReadPacketRx"
    /\ syncReadRxBuffLen = 13
    /\ op.ID = 243
    /\ EndsInTruncatedTarget
    /\ scan.to = 13
    /\ ret = 0

(***************************************************************************)
(* Claims on transmitted frames                                            *)
(***************************************************************************)
\* C11 (as claimed): Write and BufferedWrite with a payload of 0 to 249 bytes
\* hand the transport one complete frame: FF FF, address, length,
\* instruction, register address, every payload byte, and the checksum.
C11_CompleteFrame ==
    (/\ op.name \in {"genWrite", "regWrite"}
     /\ op.nDat # NULL
     /\ op.nLen <= SCSERVO_MAX_DATA_SIZE)
        => /\ Len(WireWrites) = 1
           /\ Len(Sent) = op.nLen + 7
           /\ SubSeq(Sent, 1, 3) = <<255, 255, op.ID>>
           /\ Sent[5] = (IF op.name = "genWrite" THEN INST_WRITE ELSE INST_REG_WRITE)
           /\ Sent[6] = op.MemAddr
           /\ SubSeq(Sent, 7, 6 + op.nLen) = op.nDat
           /\ Sent[Len(Sent)] = 255 - (SumBytes(SubSeq(Sent, 3, Len(Sent) - 1)) % 256)

\* C12 (as claimed): in every transmitted frame the last byte is the bitwise
\* complement of the 8-bit sum of the transmitted bytes from the address byte
\* through the byte before it.
C12_ChecksumOfSent ==
    WireWrites # <<>> =>
        Sent[Len(Sent)] = 255 - (SumBytes(SubSeq(Sent, 3, Len(Sent) - 1)) % 256)

\* the response FF FF addr n+2 status data CHK as the encoder builds it:
\* writeBuf lays out address, length, one byte, then (with data) a second
\* byte and the rest, and appends its checksum
EncodeResp(a, s, d) ==
    IF d = <<>> THEN writeBuf(<<>>, a, 0, NULL, 0, s)
    ELSE writeBuf(<<>>, a, d[1], Tail(d), Len(d) - 1, s)

\* C13: for every address, status byte and data of n <= 249 bytes, the
\* response frame built with the encoder's checksum rule is accepted by
\* Read(addr, reg, n), which returns n, delivers exactly the data and caches
\* exactly the status.
C13_RoundTrip ==
    (op.name = "Read" /\ WireReads # <<>>) =>
        \A s \in StatusSet, d \in DataSet(op.nLen) :
            op.bus = EncodeResp(op.ID, s, d) =>
                /\ ret = op.nLen
                /\ nData = d
                /\ Error = s
                /\ Received = op.bus

\* a Read of the largest length answered by the encoded frame of 249 data
\* bytes and a non-zero status
C13_Witness ==
    /\ op.name = "Read"
    /\ op.nLen = SCSERVO_MAX_DATA_SIZE
    /\ op.bus = EncodeResp(op.ID, 32, Fill(SCSERVO_MAX_DATA_SIZE, 17))
    /\ Len(op.bus) = SCSERVO_BUFFER_SIZE
    /\ ret = SCSERVO_MAX_DATA_SIZE
    /\ Error = 32

(***************************************************************************)
(* Claims on the cached status                                             *)
(***************************************************************************)
\* the last call received a well-formed 6-byte response with length byte 2
\* from the node it addressed (from any node when it addressed 0xFE)
GotStatusResponse ==
    /\ WireReads # <<>>
    /\ WellFormed(Received, 0)
    /\ Received[4] = 2
    /\ (Received[3] = op.ID \/ op.ID = BROADCAST_ID)

\* C14 (as claimed): a successful Ping returns the status byte of the 6-byte
\* response (the byte after the length byte) and caches that same byte as the
\* current status; on timeout or framing error it returns -1.
C14_PingStatus ==
    op.name = "Ping" =>
        IF GotStatusResponse
        THEN ret = Received[5] /\ Error = Received[5]
        ELSE ret = -1

\* the last call validated a response: a status response for Ping and the
\* write class, the data response Read accepts for Read
Validated ==
    IF op.name = "Read"
    THEN WireReads # <<>> /\ WellFormed(Received, op.nLen)
    ELSE GotStatusResponse

\* C15 (as claimed): after any Ping, Read, Write, BufferedWrite or
\* BufferedWriteTrigger call, successful or not, the cached status is the
\* status byte of the response the call validated, or the cleared value 0
\* when it validated none; it never still holds an earlier call's value.
C15_StatusOverwritten ==
    op.name \in {"Ping", "Read", "genWrite", "regWrite", "RegWriteAction"} =>
        Error = (IF Validated THEN Received[5] ELSE 0)

\* C16: Read with a requested length greater than 249 returns 0 without
\* flushing, transmitting or receiving anything, and leaves the caller's
\* buffer, the staged bytes and the cached status as they were.
C16_ReadTooLong ==
    [][(op'.name = "Read" /\ op'.nLen > SCSERVO_MAX_DATA_SIZE) =>
          /\ ret' = 0
          /\ wire' = <<>>
          /\ txBuf' = txBuf
          /\ nData' = op'.nDat
          /\ Error' = Error]_vars

\* a Read of 250 bytes into a buffer, made while the cached status is 32
C16_Witness ==
    /\ op.name = "Read"
    /\ op.nLen = SCSERVO_MAX_DATA_SIZE + 1
    /\ op.nDat # NULL
    /\ ret = 0
    /\ wire = <<>>
    /\ Error = 32

(***************************************************************************)
(* Claims on the transport calls of one operation                          *)
(***************************************************************************)
\* C17: SyncWrite transmits exactly one frame addressed to 0xFE and returns
\* without calling the transport's receive, for every node list, register
\* address and per-node payload.
C17_SyncWriteNoReceive ==
    op.name = "syncWrite" =>
        /\ Len(WireWrites) = 1
        /\ SubSeq(Sent, 1, 3) = <<255, 255, BROADCAST_ID>>
        /\ Sent[5] = INST_SYNC_WRITE
        /\ WireReads = <<>>

\* a syncWrite of 2 bytes to each of 2 nodes has sent its 14-byte frame
C17_Witness ==
    /\ op.name = "syncWrite"
    /\ op.IDs = <<1, 2>>
    /\ op.nLen = 2
    /\ Len(Sent) = 14
    /\ Sent[4] = 10

\* the operations that use the bus
BusOps == {"Ping", "Read", "genWrite", "regWrite", "RegWriteAction", "syncWrite",
           "syncReadPacketTx"}

\* the last call was a bus operation that did not reject its arguments
RanOnBus ==
    /\ op.name \in BusOps
    /\ ~(op.name = "Read" /\ (op.nDat = NULL \/ op.nLen > SCSERVO_MAX_DATA_SIZE))

\* C18: within every bus operation (Ping, Read, Write, BufferedWrite,
\* BufferedWriteTrigger, SyncWrite, SyncRead transmit) the input flush comes
\* before the frame is handed to the transport, the whole frame is sent
\* before any receive starts, and no receive precedes the send.
C18_FlushSendReceive ==
    RanOnBus =>
        /\ Len(wire) >= 2
        /\ wire[1] = EvRFlush
        /\ wire[2].ev = "write"
        /\ \A i \in 3..Len(wire) : wire[i].ev = "read"

\* a sync read transmit that flushed, sent its frame, then received the three
\* responses
C18_Witness ==
    /\ op.name = "syncReadPacketTx"
    /\ Len(wire) = 3
    /\ wire[2].bytes = SyncReadFrame(<<1, 2, 3>>, 3, 56, 2)
    /\ wire[3].ev = "read"
    /\ Len(wire[3].bytes) = 24

\* C19: no operation retries: one call of Ping, Read, Write, BufferedWrite,
\* BufferedWriteTrigger or SyncRead transmit sends at most one frame and
\* performs at most one transport receive, whatever the outcome.
C19_NoRetry ==
    op.name \in BusOps \ {"syncWrite"} =>
        /\ Len(WireWrites) <= 1
        /\ Len(WireReads) <= 1

\* a Write whose acknowledgement did not come: one frame sent, one receive,
\* failure returned
C19_Witness ==
    /\ op.name = "genWrite"
    /\ op.ID = 1
    /\ Level = 1
    /\ Len(WireWrites) = 1
    /\ Len(WireReads) = 1
    /\ Received = <<>>
    /\ ret = 0

(***************************************************************************)
(* Claims on the session's bookkeeping                                     *)
(***************************************************************************)
\* C20 (as claimed): immediately after Begin(nodeCount, L) returns, the
\* session's per-node data length equals L.
C20_BeginStoresLen ==
    op.name = "syncReadBegin" => syncReadRxPacketLen = op.nLen

\* C20 (amended): Begin(nodeCount, L) sizes the raw buffer for nodeCount
\* frames of L data bytes and leaves the per-node data length as it was; the
\* length is stored by Transmit, from its own length argument.
C20_BeginKeepsLen ==
    [][/\ op'.name = "syncReadBegin" =>
            /\ syncReadRxPacketLen' = syncReadRxPacketLen
            /\ syncReadRxBuffMax' \in {n * (op'.nLen + 6) : n \in SyncCounts}
            /\ Len(syncReadRxBuff') = syncReadRxBuffMax'
       /\ op'.name = "syncReadPacketTx" => syncReadRxPacketLen' = op'.nLen]_vars

\* a session begun for 4 data bytes per node after a Transmit of 2 bytes per
\* node: the stored length is still 2
C20_Witness ==
    /\ op.name = "syncReadBegin"
    /\ op.nLen = 4
    /\ nTx = 1
    /\ syncReadRxPacketLen = 2
    /\ syncReadRxBuffMax = 30

(***************************************************************************)
(* Claims on a sync read with a silent node                                *)
(***************************************************************************)
\* the received bytes are exactly the well-formed frames of the nodes of
\* `who` among 1, 2, 3, in the order of the request
HoldsAnswersOf(who) ==
    /\ syncReadRxBuff # NULL
    /\ syncReadRxPacketLen = 2
    /\ syncReadRxBuffLen = 8 * Cardinality(who)
    /\ syncReadRxBuffLen <= Len(syncReadRxBuff)
    /\ SubSeq(syncReadRxBuff, 1, syncReadRxBuffLen) = Answers(who, 1, 3, 2, 1)

\* C21: when every requested node except one silent node B answers with a
\* well-formed frame without FF in status and data, Extract succeeds with
\* the correct payload for each node that answered, and Extract(B) returns 0.
C21_SilentNode ==
    \A B \in SyncNodes :
        HoldsAnswersOf(SyncNodes \ {B}) =>
            \A k \in 1..Len(rxLog) :
                IF rxLog[k].ID = B THEN rxLog[k].ret = 0
                ELSE /\ rxLog[k].ret = 2
                     /\ rxLog[k].pkt = NodePayload(rxLog[k].ID, 2, 1)

\* node 2 stayed silent: Extract(3) and Extract(1) succeeded, Extract(2)
\* returned 0
C21_Witness ==
    /\ HoldsAnswersOf({1, 3})
    /\ Len(rxLog) = 3
    /\ rxLog[1].ID = 3 /\ rxLog[1].ret = 2 /\ rxLog[1].pkt = <<49, 50>>
    /\ rxLog[2].ID = 2 /\ rxLog[2].ret = 0
    /\ rxLog[3].ID = 1 /\ rxLog[3].ret = 2 /\ rxLog[3].pkt = <<17, 18>>

(***************************************************************************)
(* Decoding an extracted packet                                            *)
(***************************************************************************)
RECURSIVE BitAnd(_, _)
\* a & b on naturals
BitAnd(a, b) ==
    IF a = 0 \/ b = 0 THEN 0
    ELSE 2 * BitAnd(a \div 2, b \div 2) + (a % 2) * (b % 2)

\* a | b on naturals
BitOr(a, b) == a + b - BitAnd(a, b)

\* a & ~b on naturals
BitAndNot(a, b) == a - BitAnd(a, b)

\* 1 << k
Bit(k) == 2 ^ k

\* void SCS::Host2SCS(u8 *DataL, u8 *DataH, u16 Data)
Host2SCS(E, Data) ==
    IF E # 0 THEN [DataL |-> U8(Data \div 256), DataH |-> BitAnd(Data, 255)]
    ELSE [DataH |-> U8(Data \div 256), DataL |-> BitAnd(Data, 255)]

\* SCS2Host that takes the first byte as the low byte whatever End is
SCS2Host_IgnoresEnd(E, DataL, DataH) == BitOr(U16(DataH * 256), DataL)

\* u16 SCS::SCS2Host(u8 DataL, u8 DataH)
SCS2Host(E, DataL, DataH) ==
    IF E # 0 THEN BitOr(U16(DataL * 256), DataH)
    ELSE BitOr(U16(DataH * 256), DataL)

\* sign decoding that reads the word as a 16-bit two's complement number
NegBitDecode_TwosComplement(Word, negBit) ==
    IF negBit # 0 /\ BitAnd(Word, Bit(negBit)) # 0 THEN Word - 65536 ELSE Word

\* if(negBit){ if(Word&(1<<negBit)){ Word = -(Word & ~(1<<negBit)); } }
NegBitDecode(Word, negBit) ==
    IF negBit # 0 /\ BitAnd(Word, Bit(negBit)) # 0
    THEN 0 - BitAndNot(Word, Bit(negBit))
    ELSE Word

\* byte at 0-based index i of the caller's packet buffer; g stands for
\* memory beyond it
PacketAt(pkt, i, g) == IF i < Len(pkt) THEN pkt[i + 1] ELSE g

\* int SCS::syncReadRxPacketToByte(): the value returned and the cursor left
SyncReadRxPacketToByteBody(pkt, idx, len, g) ==
    IF idx >= len THEN [ret |-> -1, idx |-> idx]
    ELSE [ret |-> PacketAt(pkt, idx, g), idx |-> U8(idx + 1)]

\* syncReadRxPacketToWrod whose bounds check lets a word start at the last
\* byte
SyncReadRxPacketToWrodBody_OffByOne(E, pkt, idx, len, negBit, g) ==
    IF idx + 1 > len THEN [ret |-> -1, idx |-> idx]
    ELSE [ret |-> NegBitDecode(SCS2Host(E, PacketAt(pkt, idx, g),
                                        PacketAt(pkt, idx + 1, g)), negBit),
          idx |-> U8(idx + 2)]

\* int SCS::syncReadRxPacketToWrod(u8 negBit): the value returned and the
\* cursor left
SyncReadRxPacketToWrodBody(E, pkt, idx, len, negBit, g) ==
    IF idx + 1 >= len THEN [ret |-> -1, idx |-> idx]
    ELSE [ret |-> NegBitDecode(SCS2Host(E, PacketAt(pkt, idx, g),
                                        PacketAt(pkt, idx + 1, g)), negBit),
          idx |-> U8(idx + 2)]

\* a decoder call that returned r.ret and left the cursor at r.idx
DecoderCall(name, negBit, r) ==
    /\ ret' = r.ret
    /\ syncReadRxPacketIndex' = r.idx
    /\ op' = OpRec(name, 0, <<>>, 0, <<>>, negBit, <<>>)
    /\ wire' = <<>>
    /\ nData' = <<>>
    /\ UNCHANGED <<Level, End, Error, txBuf, syncReadRxPacketLen, syncReadRxPacket,
                   syncReadRxBuff, syncReadRxBuffLen, syncReadRxBuffMax, scan, rxLog, nTx>>
    /\ UNCHANGED auxVars

\* longest payload of the decoded packets
MaxDecodeLen == 3

\* payload bytes of the decoded packets: as the high byte of a word, 4 sets
\* bit 10 and 128 sets bit 15
DecodeBytes == {0, 1, 4, 128, 255}

\* sign bits handed to syncReadRxPacketToWrod: none, bit 10, bit 15
NegBits == {0, 10, 15}

\* targets of the Extract that precedes the decoding: the node that answered
\* and one that did not
DecodeIDs == {1, 2}

\* a session after a Transmit that received the well-formed frame of node 1,
\* with any payload
InitDecode ==
    /\ Level = 1
    /\ End \in EndSet
    /\ Error = 0
    /\ txBuf = <<>>
    /\ wire = <<>>
    /\ op = NoOp
    /\ ret = 0
    /\ nData = <<>>
    /\ syncReadRxPacketIndex = 0
    /\ syncReadRxPacketLen \in 1..MaxDecodeLen
    /\ syncReadRxPacket = <<>>
    /\ syncReadRxBuff \in {RespFrame(<<255, 255>>, 1, syncReadRxPacketLen + 2, 0, d, 0) :
                              d \in [1..syncReadRxPacketLen -> DecodeBytes]}
    /\ syncReadRxBuffLen = Len(syncReadRxBuff)
    /\ syncReadRxBuffMax = Len(syncReadRxBuff)
    /\ scan = [from |-> 0, to |-> 0]
    /\ rxLog = <<>>
    /\ nTx = 1
    /\ Err = 0
    /\ rd = RdIdle
    /\ heap = [live |-> 1, stray |-> 0]
    /\ rx = RxIdle

decodePacketRx ==
    /\ Len(rxLog) < MaxScans
    /\ \E ID \in DecodeIDs :
        RxCall(ID, Fill(syncReadRxPacketLen, 170), 0)

\* the decoders read through syncReadRxPacket, which the first Extract sets;
\* they are called after an Extract
syncReadRxPacketToByte ==
    /\ rxLog # <<>>
    /\ DecoderCall("syncReadRxPacketToByte", 0,
                   SyncReadRxPacketToByteBody(syncReadRxPacket, syncReadRxPacketIndex,
                                              syncReadRxPacketLen, 0))

syncReadRxPacketToWrod ==
    /\ rxLog # <<>>
    /\ \E negBit \in NegBits :
        DecoderCall("syncReadRxPacketToWrod", negBit,
                    SyncReadRxPacketToWrodBody(End, syncReadRxPacket, syncReadRxPacketIndex,
                                               syncReadRxPacketLen, negBit, 0))

NextDecode ==
    \/ decodePacketRx
    \/ syncReadRxPacketToByte
    \/ syncReadRxPacketToWrod

SpecDecode == InitDecode /\ [][NextDecode]_vars

(***************************************************************************)
(* Claims on the packet decoders                                           *)
(***************************************************************************)
\* the last Extract succeeded and put L bytes into the caller's buffer
ExtractedPacket ==
    /\ rxLog # <<>>
    /\ rxLog[Len(rxLog)].ret = syncReadRxPacketLen
    /\ Len(syncReadRxPacket) = syncReadRxPacketLen

\* C22: after a successful Extract of L bytes, any interleaving of nextByte
\* and nextWord consumes the payload strictly from left to right; the cursor
\* never exceeds L; nextByte returns -1 exactly when the cursor equals L, and
\* otherwise the byte under the cursor; nextWord returns -1 without moving
\* the cursor when fewer than 2 bytes remain, and otherwise consumes the two
\* bytes under the cursor.
C22_DecodersInOrder ==
    /\ [](ExtractedPacket => syncReadRxPacketIndex <= syncReadRxPacketLen)
    /\ [][ExtractedPacket =>
            /\ op'.name = "syncReadRxPacketToByte" =>
                    IF syncReadRxPacketIndex = syncReadRxPacketLen
                    THEN ret' = -1 /\ syncReadRxPacketIndex' = syncReadRxPacketIndex
                    ELSE /\ ret' = syncReadRxPacket[syncReadRxPacketIndex + 1]
                         /\ ret' # -1
                         /\ syncReadRxPacketIndex' = syncReadRxPacketIndex + 1
            /\ op'.name = "syncReadRxPacketToWrod" =>
                    IF syncReadRxPacketLen - syncReadRxPacketIndex < 2
                    THEN ret' = -1 /\ syncReadRxPacketIndex' = syncReadRxPacketIndex
                    ELSE /\ syncReadRxPacketIndex' = syncReadRxPacketIndex + 2
                         /\ op'.nLen = 0 =>
                                ret' \in
                                    {syncReadRxPacket[syncReadRxPacketIndex + 1]
                                        + 256 * syncReadRxPacket[syncReadRxPacketIndex + 2],
                                     256 * syncReadRxPacket[syncReadRxPacketIndex + 1]
                                        + syncReadRxPacket[syncReadRxPacketIndex + 2]}
          ]_vars

\* of a 3-byte packet one word was consumed, and nextWord then returned -1
\* with one byte left
C22_Witness ==
    /\ ExtractedPacket
    /\ syncReadRxPacketLen = 3
    /\ syncReadRxPacketIndex = 2
    /\ op.name = "syncReadRxPacketToWrod"
    /\ ret = -1
    /\ syncReadRxPacket = <<1, 4, 128>>

\* the word held by the two bytes under the cursor, in the configured byte
\* order: with End = 0 the first byte is the low byte
WordUnderCursor ==
    IF End = 0
    THEN syncReadRxPacket[syncReadRxPacketIndex + 1]
            + 256 * syncReadRxPacket[syncReadRxPacketIndex + 2]
    ELSE 256 * syncReadRxPacket[syncReadRxPacketIndex + 1]
            + syncReadRxPacket[syncReadRxPacketIndex + 2]

\* C23: nextWord(signBit) decodes magnitude plus sign: with w the two bytes
\* under the cursor combined in the configured byte order and signBit > 0,
\* the result is -(w with bit signBit cleared) when that bit is set in w,
\* and w otherwise; with signBit = 0 the result is always w.
C23_MagnitudePlusSign ==
    [][(/\ ExtractedPacket
        /\ op'.name = "syncReadRxPacketToWrod"
        /\ syncReadRxPacketLen - syncReadRxPacketIndex >= 2) =>
            ret' = IF op'.nLen > 0 /\ (WordUnderCursor \div (2 ^ op'.nLen)) % 2 = 1
                   THEN 0 - (WordUnderCursor - 2 ^ op'.nLen)
                   ELSE WordUnderCursor
      ]_vars

\* the bytes FF 04 in low-byte-first order are the word 0x04FF; with sign
\* bit 10 it decodes to -255
C23_Witness ==
    /\ ExtractedPacket
    /\ End = 0
    /\ op.name = "syncReadRxPacketToWrod"
    /\ op.nLen = 10
    /\ syncReadRxPacket = <<255, 4, 128>>
    /\ syncReadRxPacketIndex = 2
    /\ ret = -255

(***************************************************************************)
(* The session's buffer from construction on                               *)
(***************************************************************************)
\* what the members the constructors leave unassigned may hold in an
\* instance of automatic or dynamic storage duration: a length of 0 or one
\* frame's worth
StrayBuffLens == {0, 8}

\* and a per-node data length of 0 or 2
StrayPacketLens == {0, 2}

\* a freshly constructed SCSerial(0, 1) instance: no constructor assigns
\* syncReadRxBuff, syncReadRxBuffLen or syncReadRxPacketLen, so an instance
\* of static storage duration has them zero and any other instance has
\* whatever its memory held.  syncReadRxBuffMax, syncReadRxPacketIndex and
\* syncReadRxPacket are assigned before the calls below read them.
InitAlloc ==
    /\ Level = 1
    /\ End = 0
    /\ Error = 0
    /\ txBuf = <<>>
    /\ wire = <<>>
    /\ op = NoOp
    /\ ret = 0
    /\ nData = <<>>
    /\ syncReadRxPacketIndex = 0
    /\ syncReadRxPacketLen \in StrayPacketLens
    /\ syncReadRxPacket = <<>>
    /\ syncReadRxBuff \in {NULL, WILD}
    /\ syncReadRxBuffLen \in StrayBuffLens
    /\ syncReadRxBuffMax = 0
    /\ scan = [from |-> 0, to |-> 0]
    /\ rxLog = <<>>
    /\ nTx = 0
    /\ Err = 0
    /\ rd = RdIdle
    /\ heap = [live |-> 0, stray |-> 0]
    /\ rx = RxIdle

\* Transmit for node 1; a call that stores the received bytes through the
\* unassigned pointer is not followed
allocPacketTx ==
    /\ nTx < MaxTransmits
    /\ syncReadRxBuff # WILD
    /\ \E bus \in (IF syncReadRxBuff = NULL THEN {<<>>} ELSE {<<>>, NodeFrame(1, 2, 1)}) :
        SyncReadPacketTxCall(IDList(1), 1, 56, 2, bus)

\* Extract of node 1; a call that reads through the unassigned pointer is
\* not followed
allocPacketRx ==
    /\ Len(rxLog) < MaxExtracts
    /\ syncReadRxBuff # WILD
    /\ \E g \in (IF syncReadRxBuff # NULL /\ syncReadRxBuffLen > Len(syncReadRxBuff)
                 THEN GarbageSet ELSE {0}) :
        RxCall(1, Fill(syncReadRxPacketLen, 170), g)

NextAlloc ==
    \/ syncReadBegin
    \/ allocPacketTx
    \/ allocPacketRx
    \/ syncReadEnd

SpecAlloc == InitAlloc /\ [][NextAlloc]_vars

\* C24: across every sequence of Begin, Transmit, Extract and End from a
\* freshly constructed instance, at most one raw buffer is allocated at a
\* time (after Begin exactly one, after End none), and nothing is released
\* that was not allocated by a Begin and is still allocated.
C24_OneBufferNoStrayRelease ==
    /\ heap.live \in {0, 1}
    /\ heap.stray = 0
    /\ op.name = "syncReadBegin" => heap.live = 1
    /\ op.name = "syncReadEnd" => heap.live = 0

(***************************************************************************)
(* The endianness adapter and the signed-value codec as pure functions     *)
(***************************************************************************)
\* every u16 value
Words == 0..65535

\* the s16 value of a 16-bit pattern
S16(x) == IF x % 65536 >= 32768 THEN (x % 65536) - 65536 ELSE x % 65536

\* a pure function was applied: op names it, ret is its result
Applied(name, bit, r, bytes) ==
    /\ op' = [op EXCEPT !.name = name, !.MemAddr = bit]
    /\ ret' = r
    /\ nData' = bytes
    /\ UNCHANGED <<Level, End, Error, txBuf, wire>>
    /\ UNCHANGED syncVars
    /\ UNCHANGED auxVars

\* a constructed SCSerial(End, 1) and a 16-bit value x (in op.nLen) that is
\* about to be handed to a pure function
InitWord ==
    /\ Level = 1
    /\ End \in EndSet
    /\ Error = 0
    /\ txBuf = <<>>
    /\ wire = <<>>
    /\ op \in {OpRec("argument", 0, <<>>, 0, <<>>, x, <<>>) : x \in Words}
    /\ ret = 0
    /\ nData = <<>>
    /\ syncReadRxPacketIndex = 0
    /\ syncReadRxPacketLen = 0
    /\ syncReadRxPacket = <<>>
    /\ syncReadRxBuff = NULL
    /\ syncReadRxBuffLen = 0
    /\ syncReadRxBuffMax = 0
    /\ scan = [from |-> 0, to |-> 0]
    /\ rxLog = <<>>
    /\ nTx = 0
    /\ Err = 0
    /\ rd = RdIdle
    /\ heap = [live |-> 0, stray |-> 0]
    /\ rx = RxIdle

InitEndian == InitWord

\* Host2SCS(&b[0], &b[1], x): nData holds b
host2SCS ==
    /\ op.name = "argument"
    /\ \E r \in {Host2SCS(End, op.nLen)} :
        Applied("Host2SCS", 0, 0, <<r.DataL, r.DataH>>)

\* SCS2Host(b[0], b[1]) on the two bytes Host2SCS produced
scs2Host ==
    /\ op.name = "Host2SCS"
    /\ Applied("SCS2Host", 0, SCS2Host(End, nData[1], nData[2]), nData)

NextEndian ==
    \/ host2SCS
    \/ scs2Host

SpecEndian == InitEndian /\ [][NextEndian]_vars

\* C25: for every 16-bit value x and each setting of the byte-order flag,
\* SCS2Host of the two bytes produced by Host2SCS(x) is x, and with the flag
\* at 0 the first byte is the low byte of x.
C25_EndianRoundTrip ==
    /\ op.name = "SCS2Host" => ret = op.nLen
    /\ (op.name \in {"Host2SCS", "SCS2Host"} /\ End = 0) =>
            (nData[1] = op.nLen % 256 /\ nData[2] = op.nLen \div 256)

\* 0x1234 with the flag at 0 went out as 34 12 and came back
C25_Witness ==
    /\ End = 0
    /\ op.name = "SCS2Host"
    /\ op.nLen = 4660
    /\ nData = <<52, 18>>
    /\ ret = 4660

\* the direction bits the library hands to the codec
DirectionBits == {15, 10}

\* encodeSignedValue that stores the magnitude without the direction flag
EncodeSignedValue_NoFlag(value, directionBit) ==
    IF value < 0 THEN U16(0 - value) ELSE U16(value)

\* u16 ServoUtils::encodeSignedValue(s16 value, u8 directionBit)
EncodeSignedValue(value, directionBit) ==
    IF value < 0 THEN U16(BitOr(U16(0 - value), Bit(directionBit)))
    ELSE U16(value)

\* s16 ServoUtils::decodeSignedValue(u16 encodedValue, u8 directionBit)
DecodeSignedValue(encodedValue, directionBit) ==
    IF BitAnd(encodedValue, Bit(directionBit)) # 0
    THEN S16(0 - S16(BitAndNot(encodedValue, Bit(directionBit))))
    ELSE S16(encodedValue)

\* the codec does not read End
InitSigned == InitWord /\ End = 0

\* encodeSignedValue(v, bit) on the s16 value v of the argument's pattern
encodeSignedValue ==
    /\ op.name = "argument"
    /\ \E bit \in DirectionBits :
        Applied("encodeSignedValue", bit, EncodeSignedValue(S16(op.nLen), bit), <<>>)

\* decodeSignedValue on what encodeSignedValue returned, with the same bit
decodeSignedValue ==
    /\ op.name = "encodeSignedValue"
    /\ Applied("decodeSignedValue", op.MemAddr, DecodeSignedValue(ret, op.MemAddr), <<>>)

NextSigned ==
    \/ encodeSignedValue
    \/ decodeSignedValue

SpecSigned == InitSigned /\ [][NextSigned]_vars

\* magnitude of the s16 value of pattern x
Magnitude(x) == IF S16(x) < 0 THEN 0 - S16(x) ELSE S16(x)

\* C26 (as claimed): for every 16-bit signed value v and each direction bit
\* the library uses (15 and 10),
\* decodeSignedValue(encodeSignedValue(v, bit), bit) = v.
C26_SignedRoundTrip ==
    op.name = "decodeSignedValue" => ret = S16(op.nLen)

\* C26 (amended): for each direction bit (15 and 10) the codec round-trips
\* every v whose magnitude is below 2^bit, and no v whose magnitude has that
\* bit set: the flag then cannot be told from the magnitude.
C26_RoundTripBelowBit ==
    op.name = "decodeSignedValue" =>
        /\ Magnitude(op.nLen) < 2 ^ op.MemAddr => ret = S16(op.nLen)
        /\ (Magnitude(op.nLen) \div (2 ^ op.MemAddr)) % 2 = 1 => ret # S16(op.nLen)

\* -100 was encoded with direction bit 10 as 1124 and decoded back
C26_Witness ==
    /\ op.name = "decodeSignedValue"
    /\ op.MemAddr = 10
    /\ S16(op.nLen) = -100
    /\ ret = -100

(***************************************************************************)
(* SCSerial::readSCS, one pass of its loop at a time                       *)
(***************************************************************************)
\* byte counts asked of readSCS: none, one, two, an acknowledgement, and
\* responses with two, six and ten data bytes
ReadRequests == {0, 1, 2, 6, 8, 12, 16}

\* what the serial device does during a call: "open" delivers bytes or
\* stays silent; "eof" has hung up (select reports it readable and read
\* returns 0)
DevStates == {"open", "eof"}

\* what select() reports in one pass: 0 after IOTimeOut without data, 1 when
\* the device is readable (a device that hung up always is)
SelectSCS(r) == IF r.dev = "open" THEN {0, 1} ELSE {1}

\* what read(fd, nDat+rvLen, nLen-rvLen) returns once select() reported the
\* device readable: some of the bytes asked for, or 0 at end of file
ReadCounts(r) ==
    IF r.dev = "open" /\ r.nLen > r.rvLen THEN 1..(r.nLen - r.rvLen) ELSE {0}

\* the first half of a pass of while(1): select(), and `return rvLen` when
\* it reports nothing
ReadSCSSelect(r, sel) ==
    IF sel # 0 THEN [r EXCEPT !.pc = "read"] ELSE [r EXCEPT !.pc = "returned"]

\* the second half: rvLen += read(...), then `continue` or `return rvLen`
ReadSCSRead(r, n) ==
    IF r.rvLen + n < r.nLen
    THEN [r EXCEPT !.rvLen = r.rvLen + n, !.pc = "loop"]
    ELSE [r EXCEPT !.rvLen = r.rvLen + n, !.pc = "returned"]

InitRead == Constructed /\ Level = 1 /\ End = 0

\* readSCS(nDat, nLen) is entered: rvLen = 0
readSCSEnter ==
    /\ rd.pc \in {"idle", "returned"}
    /\ \E nLen \in ReadRequests, dev \in DevStates :
        /\ rd' = [pc |-> "loop", nLen |-> nLen, rvLen |-> 0, dev |-> dev]
        /\ op' = OpRec("readSCS", 0, <<>>, 0, <<>>, nLen, <<>>)
    /\ ret' = 0
    /\ UNCHANGED <<Level, End, Error, txBuf, wire, nData, Err, heap, rx>>
    /\ UNCHANGED syncVars

\* the select() of one pass
readSCSSelect ==
    /\ rd.pc = "loop"
    /\ \E sel \in SelectSCS(rd) :
        \E r \in {ReadSCSSelect(rd, sel)} :
            /\ rd' = r
            /\ ret' = IF r.pc = "returned" THEN r.rvLen ELSE ret
    /\ UNCHANGED <<Level, End, Error, txBuf, wire, op, nData, Err, heap, rx>>
    /\ UNCHANGED syncVars

\* the read() of one pass; an open device may hang up after it
readSCSRead ==
    /\ rd.pc = "read"
    /\ \E n \in ReadCounts(rd) :
        \E r \in {ReadSCSRead(rd, n)} :
            /\ \E dev \in (IF rd.dev = "open" THEN DevStates ELSE {rd.dev}) :
                rd' = [r EXCEPT !.dev = dev]
            /\ ret' = IF r.pc = "returned" THEN r.rvLen ELSE ret
    /\ UNCHANGED <<Level, End, Error, txBuf, wire, op, nData, Err, heap, rx>>
    /\ UNCHANGED syncVars

NextRead ==
    \/ readSCSEnter
    \/ readSCSSelect
    \/ readSCSRead

\* the call keeps running: a system call that can return does return
SpecRead ==
    InitRead /\ [][NextRead]_vars /\ WF_vars(readSCSSelect) /\ WF_vars(readSCSRead)

\* C27: the Transport receive always terminates, whatever the pattern of
\* partial reads the device delivers (including a ready device that delivers
\* zero bytes): a call that was entered returns.
C27_ReceiveTerminates ==
    (rd.pc = "loop") ~> (rd.pc = "returned")

(***************************************************************************)
(* SMS_STS::InitMotor                                                      *)
(***************************************************************************)
SMS_STS_MODE == 33
SMS_STS_TORQUE_ENABLE == 40
SMS_STS_LOCK == 55
SMS_STS_MODE_SERVO == 0
SMS_STS_MODE_WHEEL_CLOSED == 1
SMS_STS_MODE_WHEEL_OPEN == 2
SMS_STS_MODE_STEPPER == 3

\* int SCS::writeByte(u8 ID, u8 MemAddr, u8 bDat), from the instance state
\* s; `bus` is what the bus would deliver
writeByte(s, ID, MemAddr, bDat, bus) ==
    LET fl == wFlushSCS(writeBuf(s.tx, ID, MemAddr, <<bDat>>, 1, INST_WRITE),
                        Append(s.wire, EvRFlush))
        a == Ack(ID, bus, fl.wire)
    IN  [s EXCEPT !.tx = fl.tx, !.wire = a.wire, !.Error = a.Error, !.ret = a.ret]

\* int SMS_STS::unLockEeprom(u8 ID)
unLockEeprom(s, ID, bus) == writeByte(s, ID, SMS_STS_LOCK, 0, bus)

\* int SMS_STS::LockEeprom(u8 ID)
LockEeprom(s, ID, bus) == writeByte(s, ID, SMS_STS_LOCK, 1, bus)

\* int SMS_STS::EnableTorque(u8 ID, u8 Enable)
EnableTorque(s, ID, Enable, bus) == writeByte(s, ID, SMS_STS_TORQUE_ENABLE, Enable, bus)

\* int SMS_STS::Mode(u8 ID, u8 mode)
Mode(s, ID, mode, bus) ==
    IF ~(mode = SMS_STS_MODE_SERVO \/ mode = SMS_STS_MODE_WHEEL_CLOSED
            \/ mode = SMS_STS_MODE_WHEEL_OPEN)
    THEN [s EXCEPT !.Err = 1, !.ret = 0]
    ELSE writeByte([s EXCEPT !.Err = 0], ID, SMS_STS_MODE, mode, bus)

\* the failure exit of InitMotor: Err = 1; return 0;
Failed(s) == [s EXCEPT !.Err = 1, !.ret = 0]

\* InitMotor that goes on to the mode write whatever the unlock returned
InitMotorBody_IgnoresUnlock(s, ID, mode, enableTorque, bus) ==
    LET s1 == unLockEeprom(s, ID, bus[1])
        s2 == Mode(s1, ID, mode, bus[2])
        s3 == LockEeprom(s2, ID, bus[3])
        s4 == EnableTorque(s3, ID, enableTorque, bus[4])
    IN  IF s2.ret = 0 THEN Failed(s2)
        ELSE IF s3.ret = 0 THEN Failed(s3)
        ELSE IF s4.ret = 0 THEN Failed(s4)
        ELSE [s4 EXCEPT !.Err = 0, !.ret = 1]

\* int SMS_STS::InitMotor(u8 ID, u8 mode, u8 enableTorque); bus[i] is what
\* the bus would deliver after the i-th write
InitMotorBody(s, ID, mode, enableTorque, bus) ==
    LET s1 == unLockEeprom(s, ID, bus[1])
        s2 == Mode(s1, ID, mode, bus[2])
        s3 == LockEeprom(s2, ID, bus[3])
        s4 == EnableTorque(s3, ID, enableTorque, bus[4])
    IN  IF s1.ret = 0 THEN Failed(s1)
        ELSE IF s2.ret = 0 THEN Failed(s2)
        ELSE IF s3.ret = 0 THEN Failed(s3)
        ELSE IF s4.ret = 0 THEN Failed(s4)
        ELSE [s4 EXCEPT !.Err = 0, !.ret = 1]

\* mode arguments: the three the library accepts and the one it rejects
ModeSet == {SMS_STS_MODE_SERVO, SMS_STS_MODE_WHEEL_CLOSED, SMS_STS_MODE_WHEEL_OPEN,
            SMS_STS_MODE_STEPPER}

\* enableTorque arguments
TorqueSet == {0, 1}

\* what the bus may deliver after each of the four writes to ID
MotorBus(ID) ==
    IF AckExpected(ID, Level) THEN [1..4 -> BusOutcomes(ID, 0)]
    ELSE {[i \in 1..4 |-> <<>>]}

InitMotorInstance == Constructed /\ End = 0

InitMotor ==
    \E ID \in IDSet, mode \in ModeSet, enableTorque \in TorqueSet :
        \E bus \in MotorBus(ID) :
            \E s \in {InitMotorBody([tx |-> txBuf, wire |-> <<>>, Error |-> Error,
                                     Err |-> Err, ret |-> 0],
                                    ID, mode, enableTorque, bus)} :
                /\ txBuf' = s.tx
                /\ wire' = s.wire
                /\ Error' = s.Error
                /\ Err' = s.Err
                /\ ret' = s.ret
                /\ op' = OpRec("InitMotor", ID, <<>>, mode, <<enableTorque>>, 1, bus)
                /\ nData' = <<>>
                /\ UNCHANGED <<Level, End, rd, heap, rx>>
                /\ UNCHANGED syncVars

NextMotor == InitMotor

SpecMotor == InitMotorInstance /\ [][NextMotor]_vars

\* the i-th write of the last InitMotor was acknowledged (or needed no
\* acknowledgement)
StepAcked(i) ==
    \/ Level = 0
    \/ op.ID = BROADCAST_ID
    \/ op.bus[i] = RespFrame(<<255, 255>>, op.ID, 2, 32, <<>>, 0)

\* the register and the value of the four writes, in order
MotorWrites ==
    <<[reg |-> SMS_STS_LOCK, val |-> 0], [reg |-> SMS_STS_MODE, val |-> op.MemAddr],
      [reg |-> SMS_STS_LOCK, val |-> 1], [reg |-> SMS_STS_TORQUE_ENABLE, val |-> op.nDat[1]]>>

\* the i-th step of the last InitMotor succeeded
StepOk(i) == StepAcked(i) /\ (i = 2 => op.MemAddr \in {0, 1, 2})

\* the i-th step transmits a frame (a rejected mode value is not written)
StepSends(i) == i # 2 \/ op.MemAddr \in {0, 1, 2}

\* C28: InitMotor(ID, mode, enableTorque) issues its writes in the order
\* unlock EEPROM, set operating mode, lock EEPROM, set torque; a step is
\* attempted exactly when all earlier steps succeeded; the call returns 1 if
\* and only if all four succeeded, and 0 otherwise.
C28_InitMotorSteps ==
    op.name = "InitMotor" =>
        LET attempted == {i \in 1..4 : \A j \in 1..(i - 1) : StepOk(j)}
            sending == {i \in attempted : StepSends(i)}
        IN  /\ Len(WireWrites) = Cardinality(sending)
            /\ \A k \in 1..Len(WireWrites) :
                    \E i \in sending :
                        /\ Cardinality({j \in sending : j < i}) = k - 1
                        /\ WireWrites[k].bytes[3] = op.ID
                        /\ WireWrites[k].bytes[5] = INST_WRITE
                        /\ WireWrites[k].bytes[6] = MotorWrites[i].reg
                        /\ WireWrites[k].bytes[7] = MotorWrites[i].val
                        /\ Len(WireWrites[k].bytes) = 8
            /\ ret \in {0, 1}
            /\ ret = 1 <=> \A i \in 1..4 : StepOk(i)

\* all four writes to node 1 were acknowledged
C28_Witness ==
    /\ op.name = "InitMotor"
    /\ Level = 1
    /\ op.ID = 1
    /\ op.MemAddr = SMS_STS_MODE_WHEEL_CLOSED
    /\ Len(WireWrites) = 4
    /\ WireWrites[3].bytes = <<255, 255, 1, 4, 3, 55, 1, 191>>
    /\ ret = 1

(***************************************************************************)
(* Claims on what Extract accepts                                          *)
(***************************************************************************)
\* the received part of the raw buffer holds, from 0-based index p on, the
\* well-formed frame FF FF target L+2 status d CHK with L = Len(d)
FrameAt(p, target, d) ==
    /\ p + 6 + Len(d) <= syncReadRxBuffLen
    /\ p + 6 + Len(d) <= Len(syncReadRxBuff)
    /\ syncReadRxBuff[p + 1] = 255
    /\ syncReadRxBuff[p + 2] = 255
    /\ syncReadRxBuff[p + 3] = target
    /\ syncReadRxBuff[p + 4] = Len(d) + 2
    /\ \A k \in 1..Len(d) : syncReadRxBuff[p + 5 + k] = d[k]
    /\ syncReadRxBuff[p + 6 + Len(d)]
          = 255 - ((target + Len(d) + 2 + syncReadRxBuff[p + 5] + SumBytes(d)) % 256)

\* C29: Extract never reports a false match: whenever Extract(target, out)
\* returns a non-zero value, the raw buffer holds at contiguous indices
\* below rawBufferLength the bytes FF FF target L+2 status d1..dL CHK with
\* CHK the complement of the 8-bit sum of target, L+2, status and d1..dL;
\* the value returned is L and out holds d1..dL.
C29_NoFalseMatch ==
    \A k \in 1..Len(rxLog) :
        rxLog[k].ret # 0 =>
            /\ rxLog[k].ret = syncReadRxPacketLen
            /\ Len(rxLog[k].pkt) = syncReadRxPacketLen
            /\ \E p \in 0..syncReadRxBuffLen : FrameAt(p, rxLog[k].ID, rxLog[k].pkt)

\* the frame of node 3 was found behind one stray byte
C29_Witness ==
    /\ syncReadRxBuff = <<3, 255, 255, 3, 3, 3, 3, 243>>
    /\ syncReadRxBuffLen = 8
    /\ Len(rxLog) = 1
    /\ rxLog[1].ID = 3
    /\ rxLog[1].ret = 1
    /\ rxLog[1].pkt = <<3>>

\* C30: in every state reachable by Begin, Transmit, Extract and End the
\* recorded rawBufferLength is at most the capacity of the raw buffer that
\* is currently allocated, and Extract reads no index beyond that capacity.
C30_LenWithinCapacity ==
    syncReadRxBuff # NULL =>
        /\ syncReadRxBuffLen <= Len(syncReadRxBuff)
        /\ op.name = "syncReadPacketRx" => scan.to <= Len(syncReadRxBuff)

(***************************************************************************)
(* The session operations after syncReadEnd                                *)
(***************************************************************************)
\* what readSCS(nDat, nLen) returns when nDat is null: with nothing pending
\* select() times out, and read() of 0 bytes returns 0; otherwise every
\* read() of pending bytes fails (EFAULT) without storing a byte and its -1
\* is added to rvLen, until the pending bytes are used up
ReadSCSNull(bus, nLen) ==
    IF bus = <<>> \/ nLen = 0 THEN {0} ELSE {0 - k : k \in 1..Len(bus)}

\* int SCS::syncReadPacketTx(u8 ID[], u8 IDN, u8 MemAddr, u8 nLen) while
\* syncReadRxBuff is null: readSCS(NULL, syncReadRxBuffMax) returns rv
SyncReadPacketTxNull(ID, IDN, MemAddr, nLen, bus, rv) ==
    \E fl \in {wFlushSCS(StageBytes(txBuf, SyncReadFrame(ID, IDN, MemAddr, nLen), 1),
                         <<EvRFlush>>)} :
        /\ syncReadRxPacketLen' = nLen
        /\ txBuf' = fl.tx
        /\ wire' = Append(fl.wire, EvRead(syncReadRxBuffMax, <<>>))
        /\ syncReadRxBuffLen' = U16(rv)
        /\ ret' = U16(rv)
        /\ op' = OpRec("syncReadPacketTx", BROADCAST_ID, ID, MemAddr, <<>>, nLen, bus)
        /\ rxLog' = <<>>
        /\ nTx' = nTx + 1
        /\ scan' = [from |-> 0, to |-> 0]
        /\ nData' = <<>>
        /\ UNCHANGED <<Level, End, Error, syncReadRxPacketIndex, syncReadRxPacket,
                       syncReadRxBuff, syncReadRxBuffMax>>
        /\ UNCHANGED auxVars

\* what the bus delivers after a Transmit for nodes 1 and 2: nothing, or
\* both responses
ReuseBus == {<<>>, Answers(1..2, 1, 2, 2, 1)}

InitReuse == Constructed /\ Level = 1 /\ End = 0

\* Begin for two nodes of two bytes each
reuseBegin == \E fresh \in GarbageSet : SyncReadBeginCall(2, 2, fresh)

\* Transmit for nodes 1 and 2, with or without an allocated buffer
reusePacketTx ==
    /\ nTx <= MaxTransmits
    /\ \E bus \in ReuseBus :
        IF syncReadRxBuff = NULL
        THEN \E rv \in ReadSCSNull(bus, syncReadRxBuffMax) :
                SyncReadPacketTxNull(IDList(2), 2, 56, 2, bus, rv)
        ELSE SyncReadPacketTxCall(IDList(2), 2, 56, 2, bus)

\* Extract of node 1 or 2; a call that would read beyond the array, the
\* received length being a stale one, is not followed
reusePacketRx ==
    /\ Len(rxLog) < MaxScans + 1
    /\ syncReadRxBuff # NULL => syncReadRxBuffLen <= Len(syncReadRxBuff)
    /\ \E ID \in 1..2 : RxCall(ID, Fill(syncReadRxPacketLen, 170), 0)

NextReuse ==
    \/ reuseBegin
    \/ reusePacketTx
    \/ reusePacketRx
    \/ syncReadEnd

SpecReuse == InitReuse /\ [][NextReuse]_vars

\* a Begin was made and the array it allocated has been released
SessionEnded == syncReadRxBuffMax > 0 /\ heap.live = 0

\* C31: after End and before a new Begin no session operation reads from or
\* writes into the released raw buffer: Extract returns 0 and leaves the
\* caller's buffer, the status, the cursor and the scan position alone, End
\* releases nothing, and after Transmit the session still has no buffer and
\* the transport has stored no received byte.
C31_ReleasedUntouched ==
    [][SessionEnded =>
        /\ op'.name = "syncReadPacketRx" =>
            /\ ret' = 0
            /\ UNCHANGED <<syncReadRxBuff, heap, syncReadRxPacket, syncReadRxPacketIndex,
                           Error, scan>>
        /\ op'.name = "syncReadEnd" => UNCHANGED <<syncReadRxBuff, heap>>
        /\ op'.name = "syncReadPacketTx" =>
            /\ syncReadRxBuff' = NULL
            /\ heap' = heap
            /\ wire'[Len(wire')].bytes = <<>>]_vars

\* Transmit ran after End while both nodes answered, and Extract then
\* failed
C31_Witness ==
    /\ SessionEnded
    /\ syncReadRxBuff = NULL
    /\ op.name = "syncReadPacketRx"
    /\ ret = 0
    /\ syncReadRxBuffLen > 65000
    /\ nTx > 0

(***************************************************************************)
(* syncReadPacketRx, one pass of its outer loop at a time, on buffers made *)
(* of frames and of parts of frames                                        *)
(***************************************************************************)
\* a pass that returns 0 when the length byte of a candidate differs, and
\* otherwise runs the loop to its end
RxPass_StopsAtLength(raw, len, n, ID, idx, pkt, err, g) ==
    LET h == ScanHeader(raw, len, idx, <<0, 0, 0>>, g)
        r == RxLoop(raw, len, n, ID, idx, pkt, err, g)
    IN  IF /\ idx + 6 + n <= len
           /\ h.bBuf[3] = ID
           /\ ~PastEnd(h.idx, len)
           /\ RawAt(raw, h.idx, g) # n + 2
        THEN [done |-> TRUE, ret |-> 0, idx |-> h.idx + 1, pkt |-> pkt, Error |-> err]
        ELSE [done |-> TRUE, ret |-> r.ret, idx |-> r.idx, pkt |-> r.pkt, Error |-> r.Error]

\* a pass that runs the loop to its end and, when that fails while enough
\* bytes are left, has the scan resume
RxPass_ResumesAfterSum(raw, len, n, ID, idx, pkt, err, g) ==
    LET r == RxLoop(raw, len, n, ID, idx, pkt, err, g)
    IN  [done |-> ~(r.ret = 0 /\ r.idx + 6 + n <= len), ret |-> r.ret, idx |-> r.idx,
         pkt |-> r.pkt, Error |-> r.Error]

\* one pass of while((syncReadRxBuffIndex+6+syncReadRxPacketLen)<=
\* syncReadRxBuffLen) from buffer index idx on: done tells whether the call
\* returns (the loop condition fails, a break or a return statement is
\* reached) or the loop continues from index idx
RxPass(raw, len, n, ID, idx, pkt, err, g) ==
    IF ~(idx + 6 + n <= len)
    THEN [done |-> TRUE, ret |-> 0, idx |-> idx, pkt |-> pkt, Error |-> err]
    ELSE LET h == ScanHeader(raw, len, idx, <<0, 0, 0>>, g)
         IN  IF h.bBuf[3] # ID
             THEN [done |-> FALSE, ret |-> 0, idx |-> h.idx, pkt |-> pkt, Error |-> err]
             ELSE IF PastEnd(h.idx, len)
             THEN [done |-> TRUE, ret |-> 0, idx |-> h.idx, pkt |-> pkt, Error |-> err]
             ELSE IF RawAt(raw, h.idx, g) # n + 2
             THEN [done |-> FALSE, ret |-> 0, idx |-> h.idx + 1, pkt |-> pkt, Error |-> err]
             ELSE IF PastEnd(h.idx + 1, len)
             THEN [done |-> TRUE, ret |-> 0, idx |-> h.idx + 1, pkt |-> pkt, Error |-> err]
             ELSE LET err2 == RawAt(raw, h.idx + 1, g)
                      c == CopyData(raw, len, h.idx + 2, 0, n, pkt,
                                    U8(ID + (n + 2) + err2), g)
                  IN  IF ~c.ok \/ PastEnd(c.idx, len)
                      THEN [done |-> TRUE, ret |-> 0, idx |-> c.idx, pkt |-> c.pkt,
                            Error |-> err2]
                      ELSE IF Not8(c.calSum) # RawAt(raw, c.idx, g)
                      THEN [done |-> TRUE, ret |-> 0, idx |-> c.idx + 1, pkt |-> c.pkt,
                            Error |-> err2]
                      ELSE [done |-> TRUE, ret |-> n, idx |-> c.idx + 1, pkt |-> c.pkt,
                            Error |-> err2]

\* pieces a received buffer is made of
MaxPieces == 2

\* plain data in every frame
FramePayload_Plain(a, n, v) == [k \in 1..n |-> 16 * a + k]

\* data of n bytes in a frame of node a: plain (variant 1), or beginning
\* with FF FF, the address of the other node and the length byte n+2
FramePayload(a, n, v) ==
    IF v = 1 THEN [k \in 1..n |-> 16 * a + k]
    ELSE [k \in 1..n |-> IF k <= 2 THEN 255 ELSE IF k = 3 THEN 3 - a ELSE n + 2]

\* the well-formed response of node a with that data (status 0)
GoodFrame(a, n, v) == RespFrame(<<255, 255>>, a, n + 2, 0, FramePayload(a, n, v), 0)

\* what a buffer is made of: the well-formed frame of node 1 with FF FF 02
\* in its data, the well-formed frame of node 2 with plain data, that frame
\* with its checksum off by one (status 1), and the start of a frame of
\* node 2 with another length byte
FramePieces(n) ==
    {GoodFrame(1, n, 2), GoodFrame(2, n, 1)}
        \cup {RespFrame(<<255, 255>>, 2, n + 2, 1, FramePayload(2, n, 1), 1)}
        \cup {<<255, 255, 2, x>> : x \in {n + 3, 255}}

RECURSIVE FrameBuffers(_, _)
\* the buffers made of at most k pieces
FrameBuffers(n, k) ==
    IF k = 0 THEN {<<>>}
    ELSE {<<>>} \cup {p \o b : p \in FramePieces(n), b \in FrameBuffers(n, k - 1)}

\* the instance after syncReadBegin(MaxPieces, 4)
InitLoop ==
    /\ Level = 1
    /\ End = 0
    /\ Error = 0
    /\ txBuf = <<>>
    /\ wire = <<>>
    /\ op = NoOp
    /\ ret = 0
    /\ nData = <<>>
    /\ syncReadRxPacketIndex = 0
    /\ syncReadRxPacketLen = 0
    /\ syncReadRxPacket = <<>>
    /\ syncReadRxBuff = Fill(MaxPieces * (4 + 6), 0)
    /\ syncReadRxBuffLen = 0
    /\ syncReadRxBuffMax = MaxPieces * (4 + 6)
    /\ scan = [from |-> 0, to |-> 0]
    /\ rxLog = <<>>
    /\ nTx = 0
    /\ Err = 0
    /\ rd = RdIdle
    /\ heap = [live |-> 1, stray |-> 0]
    /\ rx = RxIdle

\* the Transmit of the session, which receives any of the buffers
loopPacketTx ==
    /\ nTx = 0
    /\ \E bus \in FrameBuffers(4, MaxPieces) :
        SyncReadPacketTxCall(IDList(MaxPieces), MaxPieces, 56, 4, bus)

\* syncReadPacketRx(ID, nDat) is entered with both pointers non-null:
\* syncReadRxBuffIndex = 0, syncReadRxPacket = nDat, syncReadRxPacketIndex = 0
rxEnter ==
    /\ rx.pc = "idle"
    /\ nTx > 0
    /\ \E ID \in 1..2 :
        /\ op' = OpRec("syncReadPacketRx", ID, <<>>, 0, Fill(syncReadRxPacketLen, 170),
                       syncReadRxPacketLen, <<>>)
    /\ syncReadRxPacket' = Fill(syncReadRxPacketLen, 170)
    /\ syncReadRxPacketIndex' = 0
    /\ rx' = [pc |-> "loop", idx |-> RxStart(scan.to)]
    /\ wire' = <<>>
    /\ nData' = <<>>
    /\ UNCHANGED <<Level, End, Error, txBuf, ret, syncReadRxPacketLen, syncReadRxBuff,
                   syncReadRxBuffLen, syncReadRxBuffMax, scan, rxLog, nTx, Err, rd, heap>>

\* one pass of the outer loop, or the return when its condition fails
rxPass ==
    /\ rx.pc = "loop"
    /\ \E r \in {RxPass(syncReadRxBuff, syncReadRxBuffLen, syncReadRxPacketLen, op.ID,
                        rx.idx, syncReadRxPacket, Error, 0)} :
        /\ syncReadRxPacket' = r.pkt
        /\ Error' = r.Error
        /\ rx' = [pc |-> IF r.done THEN "returned" ELSE "loop", idx |-> r.idx]
        /\ ret' = IF r.done THEN r.ret ELSE ret
        /\ scan' = IF r.done THEN [from |-> 0, to |-> r.idx] ELSE scan
        /\ rxLog' = IF r.done THEN Append(rxLog, [ID |-> op.ID, ret |-> r.ret, pkt |-> r.pkt])
                    ELSE rxLog
    /\ UNCHANGED <<Level, End, txBuf, wire, op, nData, syncReadRxPacketIndex,
                   syncReadRxPacketLen, syncReadRxBuff, syncReadRxBuffLen, syncReadRxBuffMax,
                   nTx, Err, rd, heap>>

NextLoop ==
    \/ loopPacketTx
    \/ rxEnter
    \/ rxPass

\* the call keeps running: a pass that can be made is made
SpecLoop == InitLoop /\ [][NextLoop]_vars /\ WF_vars(rxPass)

\* the passes, put together, are the loop: a call that returned did what
\* RxLoop does from index 0
LoopAgrees ==
    rx.pc = "returned" =>
        LET r == RxLoop(syncReadRxBuff, syncReadRxBuffLen, syncReadRxPacketLen, op.ID,
                        0, op.nDat, 0, 0)
        IN  /\ ret = r.ret
            /\ rx.idx = r.idx
            /\ syncReadRxPacket = r.pkt
            /\ Error = r.Error

(***************************************************************************)
(* Frames in the received bytes, stated on the bytes themselves            *)
(***************************************************************************)
\* the bytes the last Transmit received
Rcvd == SubSeq(syncReadRxBuff, 1, Min(syncReadRxBuffLen, Len(syncReadRxBuff)))

\* FF FF x with x # FF stands at the 0-based index c of b
HeaderAt(b, c) ==
    /\ c + 3 <= Len(b)
    /\ b[c + 1] = 255
    /\ b[c + 2] = 255
    /\ b[c + 3] # 255

\* index of the first header that lies at or after index from, or -1
FirstHeader(b, from) ==
    IF \E c \in from..(Len(b) - 3) : HeaderAt(b, c)
    THEN CHOOSE c \in from..(Len(b) - 3) :
            HeaderAt(b, c) /\ \A e \in from..(c - 1) : ~HeaderAt(b, e)
    ELSE -1

RECURSIVE NextCandidate(_, _, _)
\* index of the first header with address ID found from index from on, the
\* search starting again after the address of every other header; or -1
NextCandidate(b, from, ID) ==
    LET c == FirstHeader(b, from)
    IN  IF c < 0 THEN -1
        ELSE IF b[c + 3] = ID THEN c
        ELSE NextCandidate(b, c + 3, ID)

RECURSIVE NextExpected(_, _, _, _)
\* index of the first candidate for ID whose length byte is n + 2, the
\* search starting again after the length byte of every other candidate
NextExpected(b, from, ID, n) ==
    LET c == NextCandidate(b, from, ID)
    IN  IF c < 0 \/ c + 4 > Len(b) THEN -1
        ELSE IF b[c + 4] = n + 2 THEN c
        ELSE NextExpected(b, c + 4, ID, n)

\* all 6 + n bytes of a frame with length byte n + 2 stand at index p
WholeAt(b, p, n) == p >= 0 /\ p + 6 + n <= Len(b) /\ HeaderAt(b, p) /\ b[p + 4] = n + 2

\* the checksum that closes them is the complement of the sum before it
SumOkAt(b, p, n) == b[p + 6 + n] = Not8(SumBytes(SubSeq(b, p + 3, p + 5 + n)))

\* the data bytes of the frame at index p
DataAt(b, p, n) == SubSeq(b, p + 6, p + 5 + n)

\* C32: when a candidate with the target address carries a length byte other
\* than perNodeDataLength+2, Extract rejects it and scans on after that byte:
\* if the first candidate with the expected length byte found after it is a
\* well-formed frame, Extract returns that frame's data.
C32_ResumesAfterLength ==
    rx.pc = "returned" =>
        LET n == syncReadRxPacketLen
            c == NextCandidate(Rcvd, 0, op.ID)
            p == NextExpected(Rcvd, 0, op.ID, n)
        IN  (c >= 0 /\ c < p /\ WholeAt(Rcvd, p, n) /\ SumOkAt(Rcvd, p, n)) =>
                /\ ret = n
                /\ syncReadRxPacket = DataAt(Rcvd, p, n)
                /\ rx.idx = p + 6 + n

\* FF FF 02 07 was rejected and the frame of node 2 behind it extracted
C32_Witness ==
    /\ rx.pc = "returned"
    /\ op.ID = 2
    /\ Rcvd = <<255, 255, 2, 7>> \o GoodFrame(2, 4, 1)
    /\ ret = 4
    /\ syncReadRxPacket = <<33, 34, 35, 36>>

\* C33: when the first candidate with the target address and the expected
\* length byte fails its checksum, Extract returns 0 at once, having read no
\* byte behind that checksum, even if a well-formed frame for the target
\* follows.
C33_StopsAtBadChecksum ==
    rx.pc = "returned" =>
        LET n == syncReadRxPacketLen
            p == NextExpected(Rcvd, 0, op.ID, n)
        IN  (WholeAt(Rcvd, p, n) /\ ~SumOkAt(Rcvd, p, n)) =>
                /\ ret = 0
                /\ rx.idx = p + 6 + n

\* the frame of node 2 with a wrong checksum stood before its well-formed
\* frame, and Extract failed
C33_Witness ==
    /\ rx.pc = "returned"
    /\ op.ID = 2
    /\ Rcvd = RespFrame(<<255, 255>>, 2, 6, 1, FramePayload(2, 4, 1), 1) \o GoodFrame(2, 4, 1)
    /\ ret = 0
    /\ rx.idx = 10

\* the well-formed frame of node a whose data begins with FF FF and the
\* address of the other node, followed by a well-formed frame of that node
Misleading(a, v) == GoodFrame(a, 4, 2) \o GoodFrame(3 - a, 4, v)

\* C34: there are buffers made of two well-formed frames, the first with
\* FF FF and the second node's address in its data, from which Extract of
\* the second node does not return that node's data: on each of them it
\* fails.
C34_MisSynchronizes ==
    rx.pc = "returned" =>
        \A a \in 1..2, v \in {1, 2} :
            (Rcvd = Misleading(a, v) /\ op.ID = 3 - a) =>
                /\ WholeAt(Rcvd, 10, 4) /\ SumOkAt(Rcvd, 10, 4) /\ Rcvd[13] = op.ID
                /\ ret = 0

\* Extract of node 2 failed on the frame of node 1 with FF FF 02 06 in its
\* data followed by the frame of node 2
C34_Witness ==
    /\ rx.pc = "returned"
    /\ op.ID = 2
    /\ Rcvd = Misleading(1, 1)
    /\ ret = 0

\* C37: Extract terminates for every content and length of the raw buffer,
\* every per-node data length and every target address: each pass of its
\* outer loop reads at least one byte and none beyond the received length,
\* and a call that was entered returns.
C37_ExtractTerminates ==
    /\ [][(rx.pc = "loop" /\ rx.idx + 6 + syncReadRxPacketLen <= syncReadRxBuffLen) =>
            (rx'.idx > rx.idx /\ rx'.idx <= syncReadRxBuffLen)]_vars
    /\ (rx.pc = "loop") ~> (rx.pc = "returned")

\* a call returned after more than one pass: a rejected candidate, then a
\* frame
C37_Witness ==
    /\ rx.pc = "returned"
    /\ Rcvd = <<255, 255, 2, 255>> \o GoodFrame(2, 4, 1)
    /\ op.ID = 2
    /\ rx.idx = 14

\* C35: Extract is all-or-nothing towards its caller: whenever it returns 0,
\* the caller's output buffer and the cached status byte hold the values
\* they had before the call.
C35_AllOrNothing ==
    [][(op'.name = "syncReadPacketRx" /\ ret' = 0) =>
            (Error' = Error /\ rxLog'[Len(rxLog')].pkt = op'.nDat)]_vars

\* C36: the nextWord sentinel is unambiguous: syncReadRxPacketToWrod returns
\* -1 only when fewer than two payload bytes remain, never as the decoded
\* value of two payload bytes that it consumed.
C36_SentinelUnambiguous ==
    [][(/\ ExtractedPacket
        /\ op'.name = "syncReadRxPacketToWrod"
        /\ ret' = -1) =>
            /\ syncReadRxPacketLen - syncReadRxPacketIndex < 2
            /\ syncReadRxPacketIndex' = syncReadRxPacketIndex
      ]_vars

\* the writes of the last operation that address the lock register
LockWrites ==
    SelectSeq(WireWrites, LAMBDA w : Len(w.bytes) = 8 /\ w.bytes[6] = SMS_STS_LOCK)

\* C39: InitMotor never leaves the EEPROM unlocked: whenever it returns after
\* its unlock write was acknowledged, with success or with failure, the last
\* lock-register write it transmitted is the lock command.
C39_NeverLeftUnlocked ==
    (op.name = "InitMotor" /\ AckExpected(op.ID, Level) /\ StepAcked(1)) =>
        /\ LockWrites # <<>>
        /\ LockWrites[Len(LockWrites)].bytes[7] = 1

\* C38: frames never bleed into each other: the transmit staging buffer
\* holds at most 255 bytes (the block handed to the device is the staging
\* buffer at its fullest), it is empty whenever an operation returns, and
\* the one block an operation sends starts with the header and the address
\* of that operation.
C38_NoBleed ==
    /\ txBuf = <<>>
    /\ Len(WireWrites) <= 1
    /\ \A k \in 1..Len(WireWrites) :
            /\ WireWrites[k].n = Len(WireWrites[k].bytes)
            /\ Len(WireWrites[k].bytes) <= SCSERVO_BUFFER_SIZE
            /\ SubSeq(WireWrites[k].bytes, 1, 3) = <<255, 255, op.ID>>

\* a write of 249 data bytes filled the staging buffer to its 255 bytes,
\* which were sent and cleared
C38_Witness ==
    /\ op.name = "genWrite"
    /\ op.nLen = 249
    /\ Len(Sent) = SCSERVO_BUFFER_SIZE
    /\ txBuf = <<>>

====
